---- MODULE Spec2Model ----
(***************************************************************************)
(* The Beauty Inside: the analysis pipeline (AnalyzePipeline.analyze), its *)
(* lazily initialised catalog loader and expression index, the WebSocket   *)
(* handler that calls it on a single asyncio event loop, and the quality   *)
(* gate.                                                                   *)
(***************************************************************************)
EXTENDS Integers, Sequences, FiniteSets, TLC

(***************************************************************************)
(* Bounds of the model.                                                    *)
(***************************************************************************)
NumConns == 2
MaxDetected == 2
MaxPeriods == 2
MaxFacesCfg == 2

Conns == 1..NumConns

\* no task is running on the event-loop thread
NoTask == 0

(***************************************************************************)
(* Program constants.                                                      *)
(***************************************************************************)
\* Settings.max_faces
max_faces == 1
\* PipelineConfig.strict_quality
strict_quality == FALSE
\* Settings.ws_timeout_seconds
ws_timeout_seconds == 30

\* AnalyzeStep, in declaration order
AnalyzeStep ==
  << "received", "face_detected", "expression_analyzed",
     "embedding_extracted", "matching", "completed" >>

(***************************************************************************)
(* Exceptions.  kind "typed" is BeautyInsideError or a subclass, kind      *)
(* "untyped" any other Exception.  A message is a sequence of tokens, so   *)
(* that an f-string built around another message contains it.              *)
(***************************************************************************)
NoExc == [kind |-> "none", code |-> "", msg |-> << >>]

Typed(code, m) == [kind |-> "typed", code |-> code, msg |-> m]

Untyped(m) == [kind |-> "untyped", code |-> "", msg |-> m]

\* message a occurs inside message b
Contains(b, a) ==
  \E i \in 1..(Len(b) - Len(a) + 1) : SubSeq(b, i, i + Len(a) - 1) = a

IsPrefix(s, t) == Len(s) <= Len(t) /\ SubSeq(t, 1, Len(s)) = s

(***************************************************************************)
(* Quality gate (quality_gate.py).  The measurements of the image are the  *)
(* five flags; is_valid is derived from them.                              *)
(***************************************************************************)
QualityFlags ==
  [is_blurry : BOOLEAN, is_dark : BOOLEAN, is_bright : BOOLEAN,
   face_size_ok : BOOLEAN, face_centered : BOOLEAN]

CheckImageQualityNoBBox(f) ==
  [is_blurry |-> f.is_blurry, is_dark |-> f.is_dark, is_bright |-> f.is_bright,
   face_size_ok |-> TRUE, face_centered |-> TRUE,
   is_valid |-> (~f.is_blurry /\ ~f.is_dark /\ ~f.is_bright)]

\* check_image_quality: the flags and the derived is_valid
CheckImageQuality(f) ==
  [is_blurry |-> f.is_blurry, is_dark |-> f.is_dark, is_bright |-> f.is_bright,
   face_size_ok |-> f.face_size_ok, face_centered |-> f.face_centered,
   is_valid |-> (~f.is_blurry /\ ~f.is_dark /\ ~f.is_bright
                 /\ f.face_size_ok /\ f.face_centered)]

NoQuality ==
  [is_blurry |-> FALSE, is_dark |-> FALSE, is_bright |-> FALSE,
   face_size_ok |-> TRUE, face_centered |-> TRUE, is_valid |-> TRUE]

ValidateFaceCountNoZero(n, maxf) ==
  IF n > maxf THEN Typed("MULTIPLE_FACES_DETECTED", << "multiple_faces" >>)
  ELSE NoExc

\* validate_face_count: NoExc when it returns, the error it raises otherwise
ValidateFaceCount(n, maxf) ==
  IF n = 0 THEN Typed("NO_FACE_DETECTED", << "no_face" >>)
  ELSE IF n > maxf THEN Typed("MULTIPLE_FACES_DETECTED", << "multiple_faces" >>)
  ELSE NoExc

GateFaceCountStrictOnly(n, maxf, strict) ==
  IF ~strict THEN NoExc
  ELSE IF n = 0 THEN Typed("NO_FACE_DETECTED", << "no_face" >>)
  ELSE IF n > maxf THEN Typed("MULTIPLE_FACES_DETECTED", << "multiple_faces" >>)
  ELSE NoExc

\* the face-count validation as QualityGate.check calls it
GateFaceCount(n, maxf, strict) == ValidateFaceCount(n, maxf)

ValidateQualityFaceFirst(q) ==
  IF ~q.face_size_ok THEN Typed("FACE_TOO_SMALL", << "small" >>)
  ELSE IF ~q.face_centered THEN Typed("FACE_OUT_OF_FRAME", << "off_centre" >>)
  ELSE IF q.is_blurry THEN Typed("IMAGE_TOO_BLURRY", << "blurry" >>)
  ELSE IF q.is_dark THEN Typed("IMAGE_TOO_DARK", << "dark" >>)
  ELSE IF q.is_bright THEN Typed("IMAGE_TOO_BRIGHT", << "bright" >>)
  ELSE NoExc

\* validate_quality: the first violated condition, in the order of the code
ValidateQuality(q) ==
  IF q.is_blurry THEN Typed("IMAGE_TOO_BLURRY", << "blurry" >>)
  ELSE IF q.is_dark THEN Typed("IMAGE_TOO_DARK", << "dark" >>)
  ELSE IF q.is_bright THEN Typed("IMAGE_TOO_BRIGHT", << "bright" >>)
  ELSE IF ~q.face_size_ok THEN Typed("FACE_TOO_SMALL", << "small" >>)
  ELSE IF ~q.face_centered THEN Typed("FACE_OUT_OF_FRAME", << "off_centre" >>)
  ELSE NoExc

\* QualityGate.check: the error raised (NoExc when it returns), the result
\* returned, and the calls it made, in order
QualityGateCheck(strict, f, n, maxf) ==
  LET fc == GateFaceCount(n, maxf, strict)
      q == CheckImageQuality(f)
      vq == IF strict /\ ~q.is_valid THEN ValidateQuality(q) ELSE NoExc
  IN  IF fc # NoExc
      THEN [exc |-> fc, quality |-> NoQuality,
            calls |-> << "validate_face_count" >>]
      ELSE IF strict /\ ~q.is_valid
      THEN [exc |-> vq, quality |-> IF vq = NoExc THEN q ELSE NoQuality,
            calls |-> << "validate_face_count", "check_image_quality",
                         "validate_quality" >>]
      ELSE [exc |-> NoExc, quality |-> q,
            calls |-> << "validate_face_count", "check_image_quality" >>]

(***************************************************************************)
(* State.                                                                  *)
(***************************************************************************)
VARIABLES
  loop,          \* the task running on the event-loop thread, or NoTask
  started,       \* lifespan start-up has run
  loader,        \* CelebDataLoader: _loaded, and embeddings and ids present
  loaderCached,  \* lru_cache of get_celeb_loader holds the loader
  indexLoaded,   \* ExpressionIndex._loaded
  indexCached,   \* lru_cache of get_expression_index holds the index
  plLoader,      \* AnalyzePipeline._celeb_loader is set
  plIndex,       \* AnalyzePipeline._expression_index is set
  loadRuns,      \* executions of the body of CelebDataLoader.load begun
  loadDone,      \* executions of that body that ran to the end
  loadActive,    \* tasks inside that body
  indexRuns,     \* the same three for ExpressionIndex.load
  indexDone,
  indexActive,
  pc,            \* position of each connection's handler
  hasCallback,   \* the request passes a progress callback
  cbRaisedAt,    \* number of the first notification on which the callback
                 \* raised, 0 while it has not
  notified,      \* (step, percent) pairs handed to the callback
  stageLog,      \* stages executed, each with the exception it raised
  numFaces,      \* len(face_results)
  exc,           \* the exception in flight
  outcome,       \* how analyze ended
  sent,          \* terminal messages sent to the client
  elapsed,       \* seconds the request has spent in its current blocking call
  qgIn,          \* arguments of a QualityGate.check call
  qgOut,         \* what that call did
  fnIn,          \* arguments of a call of one of the pure functions
  fnOut,         \* what that call returned or raised
  tasks,         \* progress tasks of each session created and not yet run
  wire           \* messages written to each session's socket, in order

loaderVars ==
  << started, loader, loaderCached, indexLoaded, indexCached, plLoader,
     plIndex, loadRuns, loadDone, loadActive, indexRuns, indexDone,
     indexActive >>

reqVars ==
  << hasCallback, cbRaisedAt, notified, stageLog, numFaces, exc, outcome >>

qgVars == << qgIn, qgOut >>

fnVars == << fnIn, fnOut >>

wsVars == << tasks, wire >>

vars ==
  << loop, loaderVars, pc, reqVars, sent, elapsed, qgVars, fnVars, wsVars >>

NoOutcome == [status |-> "none", err |-> NoExc]

QgIdle == [exc |-> NoExc, quality |-> NoQuality, calls |-> << >>]

\* no pure function has been called
FnNone == [fn |-> "none"]

QgNoInput ==
  [strict |-> FALSE, flags |-> [is_blurry |-> FALSE, is_dark |-> FALSE,
     is_bright |-> FALSE, face_size_ok |-> TRUE, face_centered |-> TRUE],
   num_faces |-> 1, max_faces |-> max_faces, called |-> FALSE]

InitProcess ==
  /\ loop = NoTask
  /\ started = FALSE
  /\ loader = [loaded |-> FALSE, hasData |-> FALSE]
  /\ loaderCached = FALSE
  /\ indexLoaded = FALSE
  /\ indexCached = FALSE
  /\ plLoader = FALSE
  /\ plIndex = FALSE
  /\ loadRuns = 0
  /\ loadDone = 0
  /\ loadActive = {}
  /\ indexRuns = 0
  /\ indexDone = 0
  /\ indexActive = {}
  /\ pc = [c \in Conns |-> "idle"]
  /\ hasCallback = [c \in Conns |-> FALSE]
  /\ cbRaisedAt = [c \in Conns |-> 0]
  /\ notified = [c \in Conns |-> << >>]
  /\ stageLog = [c \in Conns |-> << >>]
  /\ numFaces = [c \in Conns |-> 0]
  /\ exc = [c \in Conns |-> NoExc]
  /\ outcome = [c \in Conns |-> NoOutcome]
  /\ sent = [c \in Conns |-> << >>]
  /\ elapsed = [c \in Conns |-> 0]
  /\ tasks = [c \in Conns |-> << >>]
  /\ wire = [c \in Conns |-> << >>]

Init ==
  /\ InitProcess
  /\ qgIn = QgNoInput
  /\ qgOut = QgIdle
  /\ fnIn = FnNone
  /\ fnOut = FnNone

(***************************************************************************)
(* The event loop.  analyze is a coroutine without an await: from the      *)
(* moment the handler is resumed with a message until it awaits the send   *)
(* of its terminal message, it runs on the event-loop thread and no other  *)
(* task is scheduled.                                                      *)
(***************************************************************************)
CanRunAnyThread(c) == TRUE

CanRun(c) == loop = NoTask \/ loop = c

(***************************************************************************)
(* AnalyzePipeline.analyze, statement by statement.                        *)
(***************************************************************************)
PipeOrder ==
  << "ensure_loader", "load_catalog", "ensure_index", "load_index",
     "n_received", "decode",
     "n_face_detected", "detect", "validate", "quality",
     "n_expression", "expression",
     "n_embedding", "crop", "embed",
     "n_matching", "catalog", "similarity", "topk",
     "n_completed", "return" >>

PosOf(p) == CHOOSE i \in 1..Len(PipeOrder) : PipeOrder[i] = p

NextPc(p) == PipeOrder[PosOf(p) + 1]

NotifyPoints ==
  { "n_received", "n_face_detected", "n_expression", "n_embedding",
    "n_matching", "n_completed" }

GenericStages ==
  { "decode", "quality", "expression", "crop", "embed", "similarity", "topk" }

BlockingStages == { "detect", "embed" }

InPipeline == { PipeOrder[i] : i \in 1..Len(PipeOrder) } \cup { "except" }

NotifyArgsSwapped(p) ==
  CASE p = "n_received" -> << "received", 10 >>
    [] p = "n_face_detected" -> << "face_detected", 25 >>
    [] p = "n_expression" -> << "embedding_extracted", 60 >>
    [] p = "n_embedding" -> << "expression_analyzed", 40 >>
    [] p = "n_matching" -> << "matching", 80 >>
    [] p = "n_completed" -> << "completed", 100 >>

\* the arguments of the six _notify_progress calls of analyze
NotifyArgs(p) ==
  CASE p = "n_received" -> << "received", 10 >>
    [] p = "n_face_detected" -> << "face_detected", 25 >>
    [] p = "n_expression" -> << "expression_analyzed", 40 >>
    [] p = "n_embedding" -> << "embedding_extracted", 60 >>
    [] p = "n_matching" -> << "matching", 80 >>
    [] p = "n_completed" -> << "completed", 100 >>

NotifyProgressNoTry(cb, raises) ==
  IF cb /\ raises THEN "raised" ELSE "ok"

\* _notify_progress: what the caller sees when the callback raises or not
NotifyProgress(cb, raises) ==
  IF cb /\ raises THEN "swallowed" ELSE "ok"

PipelineExceptWrapAll(e) ==
  Typed("INTERNAL_ERROR", << "pipeline_error:" >> \o e.msg)

\* the except clauses of analyze: the exception that leaves analyze
PipelineExcept(e) ==
  IF e.kind = "typed" THEN e
  ELSE Typed("INTERNAL_ERROR", << "pipeline_error:" >> \o e.msg)

AfterStageContinue(p, e) == NextPc(p)

\* where control goes after a statement of the try block
AfterStage(p, e) == IF e = NoExc THEN NextPc(p) ELSE "except"

\* the typed errors the collaborators raise
StageTyped(st) ==
  CASE st = "decode" -> { "IMAGE_INVALID_FORMAT" }
    [] st = "detect" -> { "INTERNAL_ERROR" }
    [] st = "embed" ->
         { "NO_FACE_DETECTED", "MODEL_LOAD_ERROR", "INTERNAL_ERROR" }
    [] OTHER -> {}

\* what a stage can do: return (NoExc) or raise
StageExcs(st, n) ==
  { NoExc, Untyped(<< st >>) }
    \cup { Typed(code, << st >>) : code \in StageTyped(st) }
    \cup (IF st = "quality"
          THEN { QualityGateCheck(strict_quality, f, n, max_faces).exc :
                   f \in QualityFlags }
          ELSE {})

LogEntry(st, e) == [stage |-> st, exc |-> e]

\* one statement of the try block has run and raised e (NoExc: returned)
RanStage(c, e) ==
  /\ stageLog' = [stageLog EXCEPT ![c] = Append(@, LogEntry(pc[c], e))]
  /\ exc' = [exc EXCEPT ![c] = IF e # NoExc THEN e ELSE @]
  /\ pc' = [pc EXCEPT ![c] = AfterStage(pc[c], e)]

Msg(t, code) == [type |-> t, code |-> code]

\* the error message carrying the code of the exception, whatever its kind
HandlerMessageErrCode(o) ==
  IF o.status = "result" THEN Msg("analyze_result", "")
  ELSE Msg("error", o.err.code)

\* handle_analyze_request: the terminal message for an outcome of analyze
HandlerMessage(o) ==
  IF o.status = "result" THEN Msg("analyze_result", "")
  ELSE IF o.err.kind = "typed" THEN Msg("error", o.err.code)
  ELSE Msg("error", "INTERNAL_ERROR")

(***************************************************************************)
(* lifespan: the start-up hook loads the catalog and the index, and logs   *)
(* and drops whatever the loading raises.                                  *)
(***************************************************************************)
Startup ==
  /\ ~started
  /\ loop = NoTask
  /\ \A c \in Conns : pc[c] = "idle" /\ sent[c] = << >>
  /\ started' = TRUE
  /\ \E o \in { "ok", "nodata", "raise" }, oi \in { "ok", "raise" } :
       /\ loadRuns' = loadRuns + 1
       /\ IF o = "raise"
          THEN UNCHANGED << loader, loaderCached, loadDone, indexLoaded,
                            indexCached, indexRuns, indexDone >>
          ELSE /\ loader' = [loaded |-> TRUE, hasData |-> (o = "ok")]
               /\ loaderCached' = TRUE
               /\ loadDone' = loadDone + 1
               /\ indexRuns' = indexRuns + 1
               /\ IF oi = "raise"
                  THEN UNCHANGED << indexLoaded, indexCached, indexDone >>
                  ELSE /\ indexLoaded' = TRUE
                       /\ indexCached' = TRUE
                       /\ indexDone' = indexDone + 1
  /\ UNCHANGED << loop, plLoader, plIndex, loadActive, indexActive, pc,
                  reqVars, sent, elapsed, qgVars, fnVars, wsVars >>

(***************************************************************************)
(* websocket_analyze / handle_analyze_request.  The model follows each     *)
(* connection through one message.                                         *)
(***************************************************************************)
\* a message arrives: without image_data it is answered at once, with
\* image_data run_analysis is entered
Receive(c) ==
  /\ pc[c] = "idle"
  /\ CanRun(c)
  /\ \E img \in BOOLEAN, cb \in BOOLEAN :
       IF img
       THEN /\ pc' = [pc EXCEPT ![c] = "ensure_loader"]
            /\ hasCallback' = [hasCallback EXCEPT ![c] = cb]
            /\ loop' = c
            /\ UNCHANGED sent
       ELSE /\ pc' = [pc EXCEPT ![c] = "handled"]
            /\ sent' = [sent EXCEPT ![c] =
                          Append(@, Msg("error", "WS_MESSAGE_INVALID"))]
            /\ UNCHANGED << hasCallback, loop >>
  /\ UNCHANGED << loaderVars, cbRaisedAt, notified, stageLog, numFaces, exc,
                  outcome, elapsed, qgVars, fnVars, wsVars >>

\* no message arrives within ws_timeout_seconds: wait_for raises
\* TimeoutError, the error is sent and the receive loop is left
ReceiveTimeout(c) ==
  /\ pc[c] = "idle"
  /\ CanRun(c)
  /\ pc' = [pc EXCEPT ![c] = "handled"]
  /\ sent' = [sent EXCEPT ![c] = Append(@, Msg("error", "TIMEOUT_ERROR"))]
  /\ UNCHANGED << loop, loaderVars, reqVars, elapsed, qgVars, fnVars, wsVars >>

\* ws_timeout_seconds more pass while the request is inside a blocking call
Tick(c) ==
  /\ pc[c] \in BlockingStages
  /\ CanRun(c)
  /\ elapsed[c] < MaxPeriods * ws_timeout_seconds
  /\ elapsed' = [elapsed EXCEPT ![c] = @ + ws_timeout_seconds]
  /\ UNCHANGED << loop, loaderVars, pc, reqVars, sent, qgVars, fnVars, wsVars >>

\* analyze ends with an exception that was raised outside its try block
RaiseRaw(c, e) ==
  /\ stageLog' = [stageLog EXCEPT ![c] = Append(@, LogEntry(pc[c], e))]
  /\ exc' = [exc EXCEPT ![c] = e]
  /\ outcome' = [outcome EXCEPT ![c] = [status |-> "error", err |-> e]]
  /\ pc' = [pc EXCEPT ![c] = "send"]

\* _ensure_data_loaded, first half: get_celeb_loader() up to the entry of
\* the body of CelebDataLoader.load
EnsureLoader(c) ==
  /\ pc[c] = "ensure_loader"
  /\ CanRun(c)
  /\ IF plLoader \/ loaderCached \/ loader.loaded
     THEN /\ plLoader' = TRUE
          /\ loaderCached' = (loaderCached \/ ~plLoader)
          /\ pc' = [pc EXCEPT ![c] = "ensure_index"]
          /\ UNCHANGED << loadRuns, loadActive >>
     ELSE /\ loadRuns' = loadRuns + 1
          /\ loadActive' = loadActive \cup { c }
          /\ pc' = [pc EXCEPT ![c] = "load_catalog"]
          /\ UNCHANGED << plLoader, loaderCached >>
  /\ UNCHANGED << loop, started, loader, indexLoaded, indexCached, plIndex,
                  loadDone, indexRuns, indexDone, indexActive, reqVars,
                  sent, elapsed, qgVars, fnVars, wsVars >>

\* the body of CelebDataLoader.load: metadata, then embeddings and ids
LoadCatalog(c) ==
  /\ pc[c] = "load_catalog"
  /\ CanRun(c)
  /\ loadActive' = loadActive \ { c }
  /\ \E o \in { "ok", "nodata", "raise" } :
       IF o = "raise"
       THEN /\ RaiseRaw(c, Untyped(<< "load_catalog" >>))
            /\ UNCHANGED << loader, loaderCached, plLoader, loadDone >>
       ELSE /\ loader' = [loaded |-> TRUE, hasData |-> (o = "ok")]
            /\ loaderCached' = TRUE
            /\ plLoader' = TRUE
            /\ loadDone' = loadDone + 1
            /\ pc' = [pc EXCEPT ![c] = "ensure_index"]
            /\ UNCHANGED << stageLog, exc, outcome >>
  /\ UNCHANGED << loop, started, indexLoaded, indexCached, plIndex, loadRuns,
                  indexRuns, indexDone, indexActive, hasCallback, cbRaisedAt,
                  notified, numFaces, sent, elapsed, qgVars, fnVars, wsVars >>

\* _ensure_data_loaded, second half: get_expression_index()
EnsureIndex(c) ==
  /\ pc[c] = "ensure_index"
  /\ CanRun(c)
  /\ IF plIndex \/ indexCached \/ indexLoaded
     THEN /\ plIndex' = TRUE
          /\ indexCached' = (indexCached \/ ~plIndex)
          /\ pc' = [pc EXCEPT ![c] = "n_received"]
          /\ UNCHANGED << indexRuns, indexActive >>
     ELSE /\ indexRuns' = indexRuns + 1
          /\ indexActive' = indexActive \cup { c }
          /\ pc' = [pc EXCEPT ![c] = "load_index"]
          /\ UNCHANGED << plIndex, indexCached >>
  /\ UNCHANGED << loop, started, loader, loaderCached, indexLoaded, plLoader,
                  loadRuns, loadDone, loadActive, indexDone, reqVars, sent,
                  elapsed, qgVars, fnVars, wsVars >>

\* the body of ExpressionIndex.load
LoadIndex(c) ==
  /\ pc[c] = "load_index"
  /\ CanRun(c)
  /\ indexActive' = indexActive \ { c }
  /\ \E o \in { "ok", "raise" } :
       IF o = "raise"
       THEN /\ RaiseRaw(c, Untyped(<< "load_index" >>))
            /\ UNCHANGED << indexLoaded, indexCached, plIndex, indexDone >>
       ELSE /\ indexLoaded' = TRUE
            /\ indexCached' = TRUE
            /\ plIndex' = TRUE
            /\ indexDone' = indexDone + 1
            /\ pc' = [pc EXCEPT ![c] = "n_received"]
            /\ UNCHANGED << stageLog, exc, outcome >>
  /\ UNCHANGED << loop, started, loader, loaderCached, plLoader, loadRuns,
                  loadDone, loadActive, indexRuns, hasCallback, cbRaisedAt,
                  notified, numFaces, sent, elapsed, qgVars, fnVars, wsVars >>

\* one _notify_progress call of analyze
Notify(c) ==
  /\ pc[c] \in NotifyPoints
  /\ CanRun(c)
  /\ \E raises \in BOOLEAN :
       LET r == NotifyProgress(hasCallback[c], raises) IN
       /\ notified' = [notified EXCEPT ![c] =
                         IF hasCallback[c] THEN Append(@, NotifyArgs(pc[c]))
                         ELSE @]
       /\ cbRaisedAt' = [cbRaisedAt EXCEPT ![c] =
                           IF @ = 0 /\ hasCallback[c] /\ raises
                           THEN Len(notified[c]) + 1 ELSE @]
       /\ IF r = "raised"
          THEN /\ exc' = [exc EXCEPT ![c] = Untyped(<< "callback" >>)]
               /\ pc' = [pc EXCEPT ![c] = "except"]
          ELSE /\ pc' = [pc EXCEPT ![c] = NextPc(pc[c])]
               /\ UNCHANGED exc
  /\ UNCHANGED << loop, loaderVars, hasCallback, stageLog, numFaces, outcome,
                  sent, elapsed, qgVars, fnVars, wsVars >>

\* a statement of the try block whose collaborator returns or raises:
\* decode, quality gate, expression, crop, embedding, similarity, top-K
Stage(c) ==
  /\ pc[c] \in GenericStages
  /\ CanRun(c)
  /\ \E e \in StageExcs(pc[c], numFaces[c]) : RanStage(c, e)
  /\ elapsed' = [elapsed EXCEPT ![c] = 0]
  /\ UNCHANGED << loop, loaderVars, hasCallback, cbRaisedAt, notified, numFaces,
                  outcome, sent, qgVars, fnVars, wsVars >>

\* self.landmarker.detect: a list of faces, or an error
Detect(c) ==
  /\ pc[c] = "detect"
  /\ CanRun(c)
  /\ \/ \E n \in 0..MaxDetected :
          /\ numFaces' = [numFaces EXCEPT ![c] = n]
          /\ RanStage(c, NoExc)
     \/ \E e \in StageExcs("detect", 0) \ { NoExc } :
          /\ RanStage(c, e)
          /\ UNCHANGED numFaces
  /\ elapsed' = [elapsed EXCEPT ![c] = 0]
  /\ UNCHANGED << loop, loaderVars, hasCallback, cbRaisedAt, notified, outcome,
                  sent, qgVars, fnVars, wsVars >>

\* validate_face_count(len(face_results)); face_result = face_results[0]
Validate(c) ==
  /\ pc[c] = "validate"
  /\ CanRun(c)
  /\ LET v == ValidateFaceCount(numFaces[c], max_faces)
         e == IF v # NoExc THEN v
              ELSE IF numFaces[c] = 0 THEN Untyped(<< "IndexError" >>)
              ELSE NoExc
     IN  RanStage(c, e)
  /\ UNCHANGED << loop, loaderVars, hasCallback, cbRaisedAt, notified, numFaces,
                  outcome, sent, elapsed, qgVars, fnVars, wsVars >>

\* self._celeb_loader.get_all_embeddings()
Catalog(c) ==
  /\ pc[c] = "catalog"
  /\ CanRun(c)
  /\ RanStage(c, IF loader.hasData THEN NoExc
                 ELSE Untyped(<< "Embeddings not loaded" >>))
  /\ UNCHANGED << loop, loaderVars, hasCallback, cbRaisedAt, notified, numFaces,
                  outcome, sent, elapsed, qgVars, fnVars, wsVars >>

\* the AnalysisResult is built and returned
Return(c) ==
  /\ pc[c] = "return"
  /\ CanRun(c)
  /\ outcome' = [outcome EXCEPT ![c] = [status |-> "result", err |-> NoExc]]
  /\ pc' = [pc EXCEPT ![c] = "send"]
  /\ UNCHANGED << loop, loaderVars, hasCallback, cbRaisedAt, notified, stageLog,
                  numFaces, exc, sent, elapsed, qgVars, fnVars, wsVars >>

\* the except clauses of analyze
Except(c) ==
  /\ pc[c] = "except"
  /\ CanRun(c)
  /\ outcome' = [outcome EXCEPT ![c] =
                   [status |-> "error", err |-> PipelineExcept(exc[c])]]
  /\ pc' = [pc EXCEPT ![c] = "send"]
  /\ UNCHANGED << loop, loaderVars, hasCallback, cbRaisedAt, notified, stageLog,
                  numFaces, exc, sent, elapsed, qgVars, fnVars, wsVars >>

\* handle_analyze_request after run_analysis: the terminal message is sent,
\* the handler returns and the locals of the request are gone
Send(c) ==
  /\ pc[c] = "send"
  /\ CanRun(c)
  /\ sent' = [sent EXCEPT ![c] = Append(@, HandlerMessage(outcome[c]))]
  /\ pc' = [pc EXCEPT ![c] = "handled"]
  /\ loop' = NoTask
  /\ hasCallback' = [hasCallback EXCEPT ![c] = FALSE]
  /\ cbRaisedAt' = [cbRaisedAt EXCEPT ![c] = 0]
  /\ notified' = [notified EXCEPT ![c] = << >>]
  /\ stageLog' = [stageLog EXCEPT ![c] = << >>]
  /\ numFaces' = [numFaces EXCEPT ![c] = 0]
  /\ exc' = [exc EXCEPT ![c] = NoExc]
  /\ outcome' = [outcome EXCEPT ![c] = NoOutcome]
  /\ UNCHANGED << loaderVars, elapsed, qgVars, fnVars, wsVars >>

Next ==
  \/ Startup
  \/ \E c \in Conns : Receive(c)
  \/ \E c \in Conns : ReceiveTimeout(c)
  \/ \E c \in Conns : Tick(c)
  \/ \E c \in Conns : EnsureLoader(c)
  \/ \E c \in Conns : LoadCatalog(c)
  \/ \E c \in Conns : EnsureIndex(c)
  \/ \E c \in Conns : LoadIndex(c)
  \/ \E c \in Conns : Notify(c)
  \/ \E c \in Conns : Stage(c)
  \/ \E c \in Conns : Detect(c)
  \/ \E c \in Conns : Validate(c)
  \/ \E c \in Conns : Catalog(c)
  \/ \E c \in Conns : Return(c)
  \/ \E c \in Conns : Except(c)
  \/ \E c \in Conns : Send(c)

Spec == Init /\ [][Next]_vars

(***************************************************************************)
(* One session with its progress messages.  sync_progress_callback creates *)
(* one task per notification; the tasks wait in the event loop's queue and *)
(* run in the order of their creation when no other task is running.  A    *)
(* send writes its frame to the socket when it is called.                  *)
(***************************************************************************)
\* the session followed
WsConns == { 1 }

Progress(step) == Msg("analyze_progress", step)

\* an analyze_request arrives on the session: without image_data it is
\* answered at once, with image_data run_analysis is entered with
\* sync_progress_callback
WsReceive(c) ==
  /\ pc[c] = "idle"
  /\ CanRun(c)
  /\ \E img \in BOOLEAN :
       IF img
       THEN /\ pc' = [pc EXCEPT ![c] = "ensure_loader"]
            /\ hasCallback' = [hasCallback EXCEPT ![c] = TRUE]
            /\ loop' = c
            /\ UNCHANGED << sent, wire >>
       ELSE /\ pc' = [pc EXCEPT ![c] = "handled"]
            /\ sent' = [sent EXCEPT ![c] =
                          Append(@, Msg("error", "WS_MESSAGE_INVALID"))]
            /\ wire' = [wire EXCEPT ![c] =
                          Append(@, Msg("error", "WS_MESSAGE_INVALID"))]
            /\ UNCHANGED << hasCallback, loop >>
  /\ UNCHANGED << loaderVars, cbRaisedAt, notified, stageLog, numFaces, exc,
                  outcome, elapsed, qgVars, fnVars, tasks >>

\* one _notify_progress call of analyze with sync_progress_callback:
\* asyncio.create_task(progress_callback(step, percent, message))
WsNotify(c) ==
  /\ pc[c] \in NotifyPoints
  /\ CanRun(c)
  /\ notified' = [notified EXCEPT ![c] = Append(@, NotifyArgs(pc[c]))]
  /\ tasks' = [tasks EXCEPT ![c] = Append(@, NotifyArgs(pc[c])[1])]
  /\ pc' = [pc EXCEPT ![c] = NextPc(pc[c])]
  /\ UNCHANGED << loop, loaderVars, hasCallback, cbRaisedAt, stageLog,
                  numFaces, exc, outcome, sent, elapsed, qgVars, fnVars,
                  wire >>

\* handle_analyze_request after run_analysis: the terminal message is
\* written, the handler returns to the receive loop and waits there
WsSend(c) ==
  /\ pc[c] = "send"
  /\ CanRun(c)
  /\ sent' = [sent EXCEPT ![c] = Append(@, HandlerMessage(outcome[c]))]
  /\ wire' = [wire EXCEPT ![c] = Append(@, HandlerMessage(outcome[c]))]
  /\ pc' = [pc EXCEPT ![c] = "handled"]
  /\ loop' = NoTask
  /\ UNCHANGED << loaderVars, reqVars, elapsed, qgVars, fnVars, tasks >>

\* the event loop runs the oldest progress task of the session:
\* manager.send_progress writes the analyze_progress message
ProgressTask(c) ==
  /\ loop = NoTask
  /\ tasks[c] # << >>
  /\ wire' = [wire EXCEPT ![c] = Append(@, Progress(Head(tasks[c])))]
  /\ tasks' = [tasks EXCEPT ![c] = Tail(@)]
  /\ UNCHANGED << loop, loaderVars, pc, reqVars, sent, elapsed, qgVars,
                  fnVars >>

NextWs ==
  \/ \E c \in WsConns : WsReceive(c)
  \/ \E c \in WsConns : EnsureLoader(c)
  \/ \E c \in WsConns : LoadCatalog(c)
  \/ \E c \in WsConns : EnsureIndex(c)
  \/ \E c \in WsConns : LoadIndex(c)
  \/ \E c \in WsConns : WsNotify(c)
  \/ \E c \in WsConns : Stage(c)
  \/ \E c \in WsConns : Detect(c)
  \/ \E c \in WsConns : Validate(c)
  \/ \E c \in WsConns : Catalog(c)
  \/ \E c \in WsConns : Return(c)
  \/ \E c \in WsConns : Except(c)
  \/ \E c \in WsConns : WsSend(c)
  \/ \E c \in WsConns : ProgressTask(c)

SpecWs == Init /\ [][NextWs]_vars

(***************************************************************************)
(* QualityGate.check, called on arguments of any value.                    *)
(***************************************************************************)
InitQG ==
  /\ InitProcess
  /\ qgIn \in [strict : BOOLEAN, flags : QualityFlags,
               num_faces : 0..(MaxFacesCfg + 1), max_faces : 1..MaxFacesCfg,
               called : { FALSE }]
  /\ qgOut = QgIdle
  /\ fnIn = FnNone
  /\ fnOut = FnNone

QGCheck ==
  /\ ~qgIn.called
  /\ qgIn' = [qgIn EXCEPT !.called = TRUE]
  /\ qgOut' = QualityGateCheck(qgIn.strict, qgIn.flags, qgIn.num_faces,
                               qgIn.max_faces)
  /\ UNCHANGED << loop, loaderVars, pc, reqVars, sent, elapsed,
                  fnVars, wsVars >>

NextQG == QGCheck

SpecQG == InitQG /\ [][NextQG]_vars

(***************************************************************************)
(* Pure functions of the ranking, the expression index and the expression  *)
(* scorer.  A specification of a pure function draws the arguments in its  *)
(* initial states and applies the function in its one action.              *)
(*                                                                         *)
(* A similarity is an integer number of tenths (4 is 0.4), a score an      *)
(* integer number of tenths of a point (598 is 59.8), min_score and        *)
(* max_score are whole points.                                             *)
(***************************************************************************)
procVars ==
  << loop, loaderVars, pc, reqVars, sent, elapsed, wsVars >>

(***************************************************************************)
(* Score scaling (score_scale.py).                                         *)
(***************************************************************************)
\* similarities handed to the scaler reach SimMargin tenths below 0 and
\* above 1
SimMargin == 2

ScaleSims == (0 - SimMargin)..(10 + SimMargin)

\* configured min_score and max_score, in points
ScoreVals == { 50, 70, 99 }

ScaleMethods == { "linear", "sigmoid", "power", "percentile", "cubic" }

\* the exponents used: ScoreScaler's default 0.5 and default_scaler's 0.7
PowerVals == { 5, 7 }

\* max(0.0, min(1.0, similarity))
Clamp01(s) == IF s < 0 THEN 0 ELSE IF s > 10 THEN 10 ELSE s

\* n / d rounded to the nearest integer
RoundDiv(n, d) == (2 * n + d) \div (2 * d)

\* 1 / (1 + exp(-10 * (c/10 - 0.5))) in ten-thousandths, c = 0..10
SigmoidVal(c) ==
  << 67, 180, 474, 1192, 2689, 5000, 7311, 8808, 9526, 9820, 9933 >>[c + 1]

\* (c/10) ** (power/10) in ten-thousandths, c = 0..10
PowerVal(c, power) ==
  IF power = 5
  THEN << 0, 3162, 4472, 5477, 6325, 7071, 7746, 8367, 8944, 9487,
          10000 >>[c + 1]
  ELSE << 0, 1995, 3241, 4305, 5266, 6156, 6994, 7791, 8554, 9289,
          10000 >>[c + 1]

\* linear_scale
LinearScale(s, min_score, max_score) ==
  10 * min_score + Clamp01(s) * (max_score - min_score)

\* sigmoid_scale with the default center and steepness
SigmoidScale(s, min_score, max_score) ==
  RoundDiv(100000 * min_score
             + 10 * SigmoidVal(Clamp01(s)) * (max_score - min_score), 10000)

\* power_scale
PowerScale(s, power, min_score, max_score) ==
  RoundDiv(100000 * min_score
             + 10 * PowerVal(Clamp01(s), power) * (max_score - min_score),
           10000)

\* DEFAULT_PERCENTILE_MAP: thresholds in tenths, in sorted order, and the
\* score of each in points
PercentileThresholds == << 3, 5, 7, 8, 9, 10 >>

PercentileScores == << 50, 70, 85, 90, 95, 99 >>

\* percentile_scale with the default map: the first threshold the similarity
\* does not exceed; min_score at the first one, else the interpolation
\* between the map's scores; max_score above every threshold
PercentileScale(s, min_score, max_score) ==
  LET hit == { i \in 1..Len(PercentileThresholds) :
                 s <= PercentileThresholds[i] }
  IN  IF hit = {} THEN 10 * max_score
      ELSE LET i == CHOOSE j \in hit : \A h \in hit : j <= h
           IN  IF i = 1 THEN 10 * min_score
               ELSE RoundDiv(
                 10 * PercentileScores[i - 1]
                      * (PercentileThresholds[i] - PercentileThresholds[i - 1])
                   + 10 * (s - PercentileThresholds[i - 1])
                        * (PercentileScores[i] - PercentileScores[i - 1]),
                 PercentileThresholds[i] - PercentileThresholds[i - 1])

\* ScoreScaler(method, min_score, max_score, power=...).scale(similarity)
ScoreScalerScale(method, min_score, max_score, power, s) ==
  IF method = "linear" THEN LinearScale(s, min_score, max_score)
  ELSE IF method = "sigmoid" THEN SigmoidScale(s, min_score, max_score)
  ELSE IF method = "power" THEN PowerScale(s, power, min_score, max_score)
  ELSE IF method = "percentile" THEN PercentileScale(s, min_score, max_score)
  ELSE LinearScale(s, min_score, max_score)

\* scale_similarity_to_score: default_scaler is ScoreScaler("power", power=0.7)
ScaleSimilarityToScore(s) == ScoreScalerScale("power", 50, 99, 7, s)

InitScale ==
  /\ InitProcess
  /\ qgIn = QgNoInput
  /\ qgOut = QgIdle
  /\ fnIn \in { a \in [fn : { "scale" }, method : ScaleMethods,
                       min_score : ScoreVals, max_score : ScoreVals,
                       power : PowerVals, similarity : ScaleSims,
                       called : { FALSE }] :
                  a.min_score <= a.max_score }
  /\ fnOut = FnNone

ScaleCall ==
  /\ fnIn.fn = "scale"
  /\ ~fnIn.called
  /\ fnIn' = [fnIn EXCEPT !.called = TRUE]
  /\ fnOut' = [fn |-> "scale",
               score |-> ScoreScalerScale(fnIn.method, fnIn.min_score,
                                          fnIn.max_score, fnIn.power,
                                          fnIn.similarity)]
  /\ UNCHANGED << procVars, qgVars >>

NextScale == ScaleCall

SpecScale == InitScale /\ [][NextScale]_vars

(***************************************************************************)
(* Top-K selection (topk.py).                                              *)
(***************************************************************************)
\* longest list of (celeb_id, similarity) pairs handed to the selection
MaxList == 4
\* largest k
MaxK == 4

CelebIds == { "a", "b" }

\* similarities of the candidates, in tenths
SimVals == 3..5

\* min_similarity values, in tenths; 4 is the default of TopKConfig
MinSimVals == { 4, 5 }

\* diversity_penalty values, in tenths; 0 is the default of TopKConfig
PenaltyVals == { 0, 2 }

\* TopKConfig(): k, min_similarity, diversity_penalty
TopKConfigDefault == [k |-> 3, min_similarity |-> 4, diversity_penalty |-> 0]

SimPairs == [id : CelebIds, sim : SimVals]

SimLists == UNION { [1..n -> SimPairs] : n \in 0..MaxList }

\* RANK_NAMES.get(i, Rank.BRONZE)
RankName(i) ==
  IF i = 1 THEN "gold" ELSE IF i = 2 THEN "silver" ELSE "bronze"

\* loader.get_celeb_name: the name of the catalog entry, the id itself for
\* an id the catalog does not hold ("a" is in the catalog, "b" is not)
GetCelebName(id) == IF id = "a" THEN "name_a" ELSE id

\* SimilarityResult built by select_top_k
SimilarityResult(pair) ==
  [celeb_id |-> pair.id, name |-> GetCelebName(pair.id),
   raw_similarity |-> pair.sim,
   scaled_score |-> ScaleSimilarityToScore(pair.sim)]

RECURSIVE SelectLoopSkipLow(_, _, _, _, _)
SelectLoopSkipLow(sims, i, k, min_similarity, results) ==
  IF i > Len(sims) THEN results
  ELSE IF sims[i].sim < min_similarity
  THEN SelectLoopSkipLow(sims, i + 1, k, min_similarity, results)
  ELSE IF Len(results) >= k THEN results
  ELSE SelectLoopSkipLow(sims, i + 1, k, min_similarity,
                         Append(results, SimilarityResult(sims[i])))

\* the loop of select_top_k from entry i on: break below the threshold,
\* then break when k results are collected, else append
RECURSIVE SelectLoop(_, _, _, _, _)
SelectLoop(sims, i, k, min_similarity, results) ==
  IF i > Len(sims) THEN results
  ELSE IF sims[i].sim < min_similarity THEN results
  ELSE IF Len(results) >= k THEN results
  ELSE SelectLoop(sims, i + 1, k, min_similarity,
                  Append(results, SimilarityResult(sims[i])))

\* select_top_k with k and min_similarity given
SelectTopK(sims, k, min_similarity) ==
  SelectLoop(sims, 1, k, min_similarity, << >>)

RECURSIVE SortDescTiesReversed(_)
SortDescTiesReversed(list) ==
  IF list = << >> THEN << >>
  ELSE LET rest == SortDescTiesReversed(SubSeq(list, 1, Len(list) - 1))
           x == list[Len(list)]
           n == Cardinality({ i \in 1..Len(rest) : rest[i].sim > x.sim })
       IN  SubSeq(rest, 1, n) \o << x >> \o SubSeq(rest, n + 1, Len(rest))

\* the rows of a list in non-increasing order of similarity, rows of equal
\* similarity in their order in the list: list.sort(key=..., reverse=True)
RECURSIVE SortDesc(_)
SortDesc(list) ==
  IF list = << >> THEN << >>
  ELSE LET rest == SortDesc(SubSeq(list, 1, Len(list) - 1))
           x == list[Len(list)]
           n == Cardinality({ i \in 1..Len(rest) : rest[i].sim >= x.sim })
       IN  SubSeq(rest, 1, n) \o << x >> \o SubSeq(rest, n + 1, Len(rest))

\* the penalty subtracted once, whatever the number of earlier occurrences
AdjustDiversityFlat(sims, penalty, same_celeb_limit) ==
  [i \in 1..Len(sims) |->
     LET count == Cardinality({ j \in 1..(i - 1) : sims[j].id = sims[i].id })
     IN  [id |-> sims[i].id,
          sim |-> IF count >= same_celeb_limit
                  THEN sims[i].sim - penalty
                  ELSE sims[i].sim]]

\* the adjusted list of apply_diversity before its sort: every occurrence
\* of an id after the first same_celeb_limit ones loses
\* penalty * (count - same_celeb_limit + 1)
AdjustDiversity(sims, penalty, same_celeb_limit) ==
  [i \in 1..Len(sims) |->
     LET count == Cardinality({ j \in 1..(i - 1) : sims[j].id = sims[i].id })
     IN  [id |-> sims[i].id,
          sim |-> IF count >= same_celeb_limit
                  THEN sims[i].sim - penalty * (count - same_celeb_limit + 1)
                  ELSE sims[i].sim]]

\* apply_diversity
ApplyDiversity(sims, penalty, same_celeb_limit) ==
  SortDesc(AdjustDiversity(sims, penalty, same_celeb_limit))

\* RankingResult built by create_ranking_results at 1-based position i
RankingResult(result, i) ==
  [celeb_id |-> result.celeb_id, name |-> result.name,
   score |-> result.scaled_score, rank |-> RankName(i)]

CreateRankingResultsNoCut(results) ==
  [i \in 1..Len(results) |-> RankingResult(results[i], i)]

\* create_ranking_results: the first three results, ranked by position
CreateRankingResults(results) ==
  [i \in 1..(IF Len(results) < 3 THEN Len(results) ELSE 3) |->
     RankingResult(results[i], i)]

\* the list TopKSelector.select hands to select_top_k
SelectorInput(sims, config) ==
  IF config.diversity_penalty > 0
  THEN ApplyDiversity(sims, config.diversity_penalty, 1)
  ELSE sims

\* TopKSelector(config).select
SelectorSelect(sims, config) ==
  CreateRankingResults(
    SelectTopK(SelectorInput(sims, config), config.k, config.min_similarity))

InitTopK ==
  /\ InitProcess
  /\ qgIn = QgNoInput
  /\ qgOut = QgIdle
  /\ fnIn \in [fn : { "topk" }, sims : SimLists, k : 0..MaxK,
               min_similarity : MinSimVals, diversity_penalty : PenaltyVals,
               called : { FALSE }]
  /\ fnOut = FnNone

\* a call of select_top_k(similarities, k, min_similarity)
SelectTopKCall ==
  /\ fnIn.fn = "topk"
  /\ ~fnIn.called
  /\ fnIn' = [fnIn EXCEPT !.called = TRUE]
  /\ fnOut' = [fn |-> "select_top_k",
               results |-> SelectTopK(fnIn.sims, fnIn.k, fnIn.min_similarity)]
  /\ UNCHANGED << procVars, qgVars >>

\* a call of TopKSelector(TopKConfig(k, min_similarity, penalty)).select
SelectorSelectCall ==
  /\ fnIn.fn = "topk"
  /\ ~fnIn.called
  /\ fnIn' = [fnIn EXCEPT !.called = TRUE]
  /\ fnOut' = [fn |-> "select",
               results |-> SelectorSelect(fnIn.sims,
                 [k |-> fnIn.k, min_similarity |-> fnIn.min_similarity,
                  diversity_penalty |-> fnIn.diversity_penalty])]
  /\ UNCHANGED << procVars, qgVars >>

NextTopK == SelectTopKCall \/ SelectorSelectCall

SpecTopK == InitTopK /\ [][NextTopK]_vars

\* ---- apply_diversity ----

\* the values of same_celeb_limit
LimitVals == 0..2

InitDiversity ==
  /\ InitProcess
  /\ qgIn = QgNoInput
  /\ qgOut = QgIdle
  /\ fnIn \in [fn : { "apply_diversity" }, sims : SimLists,
               penalty : PenaltyVals, same_celeb_limit : LimitVals,
               called : { FALSE }]
  /\ fnOut = FnNone

ApplyDiversityCall ==
  /\ fnIn.fn = "apply_diversity"
  /\ ~fnIn.called
  /\ fnIn' = [fnIn EXCEPT !.called = TRUE]
  /\ fnOut' = [fn |-> "apply_diversity",
               results |-> ApplyDiversity(fnIn.sims, fnIn.penalty,
                                          fnIn.same_celeb_limit)]
  /\ UNCHANGED << procVars, qgVars >>

NextDiversity == ApplyDiversityCall

SpecDiversity == InitDiversity /\ [][NextDiversity]_vars

\* Settings.similarity_threshold, in tenths
similarity_threshold == 4

\* select_top_k called without k and min_similarity: the settings are used
SelectTopKDefaults(sims, top_k) == SelectTopK(sims, top_k, similarity_threshold)

\* get_top_k_matches: default_selector is TopKSelector() with TopKConfig()
GetTopKMatches(sims) == SelectorSelect(sims, TopKConfigDefault)

\* the arguments are a list of pairs and the configured Settings.top_k
InitMatches ==
  /\ InitProcess
  /\ qgIn = QgNoInput
  /\ qgOut = QgIdle
  /\ fnIn \in [fn : { "matches" }, sims : SimLists, top_k : 1..MaxK,
               called : { FALSE }]
  /\ fnOut = FnNone

\* top_matches = get_top_k_matches(similarities, expression.value)
GetTopKMatchesCall ==
  /\ fnIn.fn = "matches"
  /\ ~fnIn.called
  /\ fnIn' = [fnIn EXCEPT !.called = TRUE]
  /\ fnOut' = [fn |-> "get_top_k_matches",
               results |-> GetTopKMatches(fnIn.sims)]
  /\ UNCHANGED << procVars, qgVars >>

\* select_top_k(similarities)
SelectTopKDefaultsCall ==
  /\ fnIn.fn = "matches"
  /\ ~fnIn.called
  /\ fnIn' = [fnIn EXCEPT !.called = TRUE]
  /\ fnOut' = [fn |-> "select_top_k",
               results |-> SelectTopKDefaults(fnIn.sims, fnIn.top_k)]
  /\ UNCHANGED << procVars, qgVars >>

NextMatches == GetTopKMatchesCall \/ SelectTopKDefaultsCall

SpecMatches == InitMatches /\ [][NextMatches]_vars

(***************************************************************************)
(* Similarity (similarity.py).  An embedding is a tuple of integers; the   *)
(* embeddings of the model have norm 5 and integer distances from one      *)
(* another, so that norms, distances and quotients are exact.  The         *)
(* similarities of one result share the denominator den.                   *)
(***************************************************************************)
\* most candidate rows and ids
MaxRows == 3

\* embeddings of dimension 2
Vec2 == { << 3, 4 >>, << 3, -4 >>, << -3, 4 >>, << -3, -4 >> }

\* an embedding of dimension 1
Vec1 == { << 5 >> }

\* the user embedding: None or a 1-dimensional array
NoUser == [kind |-> "None", vec |-> << >>]

UserArray(v) == [kind |-> "array", vec |-> v]

\* celeb_embeddings: None, a 1-dimensional array, or a 2-dimensional array
\* of rows of one dimension
NoEmbeddings == [kind |-> "None", dim |-> 0, rows |-> << >>]

Array1d == [kind |-> "1d", dim |-> 0, rows |-> << >>]

Array2d(d, r) == [kind |-> "2d", dim |-> d, rows |-> r]

SimMethods == { "cosine", "euclidean", "manhattan" }

Dot(u, v) ==
  LET RECURSIVE Sum(_)
      Sum(i) == IF i = 0 THEN 0 ELSE u[i] * v[i] + Sum(i - 1)
  IN  Sum(Len(u))

\* the square root of a perfect square
ISqrt(n) == CHOOSE r \in 0..n : r * r = n

Norm(v) == ISqrt(Dot(v, v))

\* np.linalg.norm(candidate - query)
Distance(u, v) ==
  LET d == [i \in 1..Len(u) |-> u[i] - v[i]] IN ISqrt(Dot(d, d))

MaxOf(S) == CHOOSE m \in S : \A x \in S : x <= m

\* batch_cosine_similarity: the cosine of every row with the query, in
\* twenty-fifths
BatchCosineSimilarity(query, rows) ==
  [i \in 1..Len(rows) |->
     (25 * Dot(query, rows[i])) \div (Norm(query) * Norm(rows[i]))]

\* batch_euclidean_distance
BatchEuclideanDistance(query, rows) ==
  [i \in 1..Len(rows) |-> Distance(rows[i], query)]

\* the messages of the input validation of compute_similarities
SimilarityValidationErrors ==
  { "No candidate embeddings", "Candidate embeddings must be 2D",
    "User embedding is None", "Embedding dim mismatch" }

\* the validation without the test of the number of ids
ValidateSimilarityInputNoCount(user, embeddings, ids) ==
  IF embeddings.kind = "None" THEN "No candidate embeddings"
  ELSE IF embeddings.kind # "2d" THEN "Candidate embeddings must be 2D"
  ELSE IF user.kind = "None" THEN "User embedding is None"
  ELSE IF embeddings.dim # Len(user.vec) THEN "Embedding dim mismatch"
  ELSE ""

\* the input validation of compute_similarities: the message of the
\* ValueError of the first test that fails, "" when all pass
ValidateSimilarityInput(user, embeddings, ids) ==
  IF embeddings.kind = "None" \/ Len(ids) = 0 THEN "No candidate embeddings"
  ELSE IF embeddings.kind # "2d" THEN "Candidate embeddings must be 2D"
  ELSE IF user.kind = "None" THEN "User embedding is None"
  ELSE IF embeddings.dim # Len(user.vec) THEN "Embedding dim mismatch"
  ELSE ""

\* compute_similarities: the error raised (NoExc when it returns), the
\* (id, similarity) pairs returned and the denominator of the similarities
ComputeSimilarities(user, embeddings, ids, method) ==
  LET fail(m) == [exc |-> Untyped(<< m >>), pairs |-> << >>, den |-> 1]
      invalid == ValidateSimilarityInput(user, embeddings, ids)
  IN
  IF invalid # "" THEN fail(invalid)
  ELSE IF method \notin { "cosine", "euclidean" }
  THEN fail("Unknown similarity method")
  ELSE IF Len(ids) > Len(embeddings.rows)
  THEN fail("IndexError")
  ELSE
    LET rows == embeddings.rows
        dist == BatchEuclideanDistance(user.vec, rows)
        max_dist == IF Len(rows) = 0 THEN 0
                    ELSE MaxOf({ dist[i] : i \in 1..Len(rows) })
        den == IF method = "cosine" THEN 25
               ELSE IF max_dist > 0 THEN max_dist ELSE 1
        sims == IF method = "cosine" THEN BatchCosineSimilarity(user.vec, rows)
                ELSE IF max_dist > 0
                THEN [i \in 1..Len(rows) |-> max_dist - dist[i]]
                ELSE [i \in 1..Len(rows) |-> 1]
        results == [i \in 1..Len(ids) |-> [id |-> ids[i], sim |-> sims[i]]]
    IN  [exc |-> NoExc, pairs |-> SortDesc(results), den |-> den]

EmbeddingArrays ==
  { NoEmbeddings, Array1d }
    \cup { Array2d(2, r) : r \in UNION { [1..n -> Vec2] : n \in 0..MaxRows } }

UserEmbeddings ==
  { NoUser } \cup { UserArray(v) : v \in Vec1 \cup { << 3, 4 >>, << -3, 4 >> } }

InitSim ==
  /\ InitProcess
  /\ qgIn = QgNoInput
  /\ qgOut = QgIdle
  /\ fnIn \in [fn : { "similarity" },
               user : UserEmbeddings,
               embeddings : EmbeddingArrays,
               ids : UNION { [1..n -> CelebIds] : n \in 0..MaxRows },
               method : SimMethods,
               called : { FALSE }]
  /\ fnOut = FnNone

ComputeSimilaritiesCall ==
  /\ fnIn.fn = "similarity"
  /\ ~fnIn.called
  /\ fnIn' = [fnIn EXCEPT !.called = TRUE]
  /\ fnOut' = ComputeSimilarities(fnIn.user, fnIn.embeddings, fnIn.ids,
                                  fnIn.method)
  /\ UNCHANGED << procVars, qgVars >>

NextSim == ComputeSimilaritiesCall

SpecSim == InitSim /\ [][NextSim]_vars

(***************************************************************************)
(* Expression index (index.py).  An embedding row is an integer; the index *)
(* holds the expression "smile", or no expression at all.                  *)
(***************************************************************************)
\* most rows of the catalog handed to the filter
MaxCatalog == 3

CatalogIds == { "a", "b", "c" }

CatalogRows == 1..2

\* "wink" is a label the index never holds
QueryLabels == { "smile", "wink" }

\* get_celebs_by_expression: the list of the expression, [] when the index
\* does not hold it; as the set the filter makes of it
GetCelebsByExpression(index, expression) ==
  IF index.present /\ expression = "smile" THEN index.celebs ELSE {}

\* has_expression
HasExpression(index, expression) == index.present /\ expression = "smile"

\* array[mask] for a boolean mask: the elements at the positions in keep
RECURSIVE MaskSelect(_, _, _)
MaskSelect(array, keep, i) ==
  IF i > Len(array) THEN << >>
  ELSE (IF i \in keep THEN << array[i] >> ELSE << >>)
         \o MaskSelect(array, keep, i + 1)

\* get_filtered_embeddings: the error raised (NoExc when it returns) and the
\* two arrays returned.  The mask np.array([...]) of an empty ids array is
\* an empty float array, which is not an index; a boolean mask must have one
\* entry per row of the array it indexes.
GetFilteredEmbeddings(index, expression, embeddings, ids) ==
  LET target_celebs == GetCelebsByExpression(index, expression)
      keep == { i \in 1..Len(ids) : ids[i] \in target_celebs }
  IN  IF target_celebs = {}
      THEN [exc |-> NoExc, embeddings |-> embeddings, ids |-> ids]
      ELSE IF Len(ids) = 0 \/ Len(ids) # Len(embeddings)
      THEN [exc |-> Untyped(<< "IndexError" >>), embeddings |-> << >>,
            ids |-> << >>]
      ELSE [exc |-> NoExc, embeddings |-> MaskSelect(embeddings, keep, 1),
            ids |-> MaskSelect(ids, keep, 1)]

InitFilter ==
  /\ InitProcess
  /\ qgIn = QgNoInput
  /\ qgOut = QgIdle
  /\ fnIn \in [fn : { "filter" },
               index : [present : BOOLEAN, celebs : SUBSET CatalogIds],
               expression : QueryLabels,
               embeddings : UNION { [1..n -> CatalogRows] :
                                      n \in 0..MaxCatalog },
               ids : UNION { [1..n -> CatalogIds] : n \in 0..MaxCatalog },
               called : { FALSE }]
  /\ fnOut = FnNone

GetFilteredEmbeddingsCall ==
  /\ fnIn.fn = "filter"
  /\ ~fnIn.called
  /\ fnIn' = [fnIn EXCEPT !.called = TRUE]
  /\ fnOut' = GetFilteredEmbeddings(fnIn.index, fnIn.expression,
                                    fnIn.embeddings, fnIn.ids)
  /\ UNCHANGED << procVars, qgVars >>

NextFilter == GetFilteredEmbeddingsCall

SpecFilter == InitFilter /\ [][NextFilter]_vars

\* ---- stage 4 of AnalyzePipeline.analyze: the similarity candidates ----

\* the candidates stage 4 hands to similarity_calc.calculate: the catalog,
\* or its rows of the detected expression when filter_by_expression is set
\* and the index has the expression
Stage4Candidates(filter_by_expression, index, expression, embeddings, ids) ==
  IF filter_by_expression /\ HasExpression(index, expression)
  THEN GetFilteredEmbeddings(index, expression, embeddings, ids)
  ELSE [exc |-> NoExc, embeddings |-> embeddings, ids |-> ids]

\* stage 4 up to the input validation of compute_similarities: the error
\* raised (NoExc when the similarities are computed) and the candidates
Stage4(filter_by_expression, index, expression, embeddings, ids) ==
  LET cand == Stage4Candidates(filter_by_expression, index, expression,
                               embeddings, ids)
      invalid ==
        ValidateSimilarityInput(
          UserArray(<< 5 >>),
          Array2d(1, [i \in 1..Len(cand.embeddings) |->
                        << cand.embeddings[i] >>]),
          cand.ids)
  IN  IF cand.exc # NoExc \/ invalid = "" THEN cand
      ELSE [exc |-> Untyped(<< invalid >>), embeddings |-> cand.embeddings,
            ids |-> cand.ids]

InitStage4 ==
  /\ InitProcess
  /\ qgIn = QgNoInput
  /\ qgOut = QgIdle
  /\ fnIn \in [fn : { "stage4" },
               filter_by_expression : BOOLEAN,
               index : [present : BOOLEAN, celebs : SUBSET CatalogIds],
               expression : QueryLabels,
               embeddings : UNION { [1..n -> CatalogRows] :
                                      n \in 0..MaxCatalog },
               ids : UNION { [1..n -> CatalogIds] : n \in 0..MaxCatalog },
               called : { FALSE }]
  /\ fnOut = FnNone

Stage4Call ==
  /\ fnIn.fn = "stage4"
  /\ ~fnIn.called
  /\ fnIn' = [fnIn EXCEPT !.called = TRUE]
  /\ fnOut' = Stage4(fnIn.filter_by_expression, fnIn.index, fnIn.expression,
                     fnIn.embeddings, fnIn.ids)
  /\ UNCHANGED << procVars, qgVars >>

NextStage4 == Stage4Call

SpecStage4 == InitStage4 /\ [][NextStage4]_vars

\* ---- the two selection rules: select_top_k and filter-then-slice ----

\* the values of k: a count, and -1
KVals == -1..MaxK

\* the thresholds: below, inside and at the top of the similarities
ThresholdVals == 3..5

\* the lists compute_similarities returns: non-increasing by similarity
SortedSimLists ==
  { l \in SimLists : \A i \in 1..(Len(l) - 1) : l[i].sim >= l[i + 1].sim }

\* the filter keeping the entries above the threshold only
FilterByThresholdStrict(results, threshold) ==
  LET keep == { i \in 1..Len(results) : results[i].sim > threshold }
  IN  MaskSelect(results, keep, 1)

\* filter_by_threshold: the entries of similarity >= threshold, in order
FilterByThreshold(results, threshold) ==
  LET keep == { i \in 1..Len(results) : results[i].sim >= threshold }
  IN  MaskSelect(results, keep, 1)

\* list[:k] of Python: the first k entries, and for a negative k all but
\* the last -k
SliceTo(list, k) ==
  LET n == Len(list)
      stop == IF k >= n THEN n
              ELSE IF k >= 0 THEN k
              ELSE IF n + k > 0 THEN n + k ELSE 0
  IN  SubSeq(list, 1, stop)

\* the rule of SimilarityCalculator.get_top_k on the computed list
FilterThenSlice(results, k, threshold) ==
  SliceTo(FilterByThreshold(results, threshold), k)

InitRules ==
  /\ InitProcess
  /\ qgIn = QgNoInput
  /\ qgOut = QgIdle
  /\ fnIn \in [fn : { "rules" }, sims : SortedSimLists, k : KVals,
               threshold : ThresholdVals, called : { FALSE }]
  /\ fnOut = FnNone

\* both rules applied to one list
SelectionRulesCall ==
  /\ fnIn.fn = "rules"
  /\ ~fnIn.called
  /\ fnIn' = [fnIn EXCEPT !.called = TRUE]
  /\ fnOut' = [fn |-> "rules",
               select_top_k |-> SelectTopK(fnIn.sims, fnIn.k, fnIn.threshold),
               get_top_k |-> FilterThenSlice(fnIn.sims, fnIn.k,
                                             fnIn.threshold)]
  /\ UNCHANGED << procVars, qgVars >>

NextRules == SelectionRulesCall

SpecRules == InitRules /\ [][NextRules]_vars

(***************************************************************************)
(* Expression scoring (expression_map.py).  Blendshape values, weights and *)
(* thresholds are integer hundredths; a score is the fraction n / d of     *)
(* hundredths with d > 0.                                                  *)
(***************************************************************************)
\* the Expression enum, in declaration order
Expression == << "neutral", "smile", "sad", "surprise" >>

\* EXPRESSION_BLENDSHAPES
ExpressionBlendshapes(expr) ==
  IF expr = "smile"
  THEN [mouthSmileLeft |-> 30, mouthSmileRight |-> 30, cheekSquintLeft |-> 15,
        cheekSquintRight |-> 15, eyeSquintLeft |-> 5, eyeSquintRight |-> 5]
  ELSE IF expr = "sad"
  THEN [mouthFrownLeft |-> 25, mouthFrownRight |-> 25, browDownLeft |-> 15,
        browDownRight |-> 15, browInnerUp |-> 20]
  ELSE IF expr = "surprise"
  THEN [browOuterUpLeft |-> 20, browOuterUpRight |-> 20, eyeWideLeft |-> 15,
        eyeWideRight |-> 15, jawOpen |-> 15, mouthOpen |-> 15]
  ELSE << >>

\* EXPRESSION_THRESHOLDS
ExpressionThreshold(expr) ==
  IF expr = "smile" THEN 30
  ELSE IF expr = "sad" THEN 25
  ELSE IF expr = "surprise" THEN 35
  ELSE 0

\* the blendshape names and values a map of the model may hold; tongueOut
\* belongs to no expression
BlendNames ==
  { "mouthSmileLeft", "cheekSquintLeft", "mouthFrownLeft", "jawOpen",
    "tongueOut" }

BlendValues == { 0, 26, 29, 40 }

BlendMaps == UNION { [S -> BlendValues] : S \in SUBSET BlendNames }

Frac(n, d) == [n |-> n, d |-> d]

\* a >= b for fractions
FracGeq(a, b) == a.n * b.d >= b.n * a.d

RECURSIVE SumOver(_, _)
SumOver(S, f) ==
  IF S = {} THEN 0
  ELSE LET x == CHOOSE y \in S : TRUE IN f[x] + SumOver(S \ { x }, f)

\* calculate_expression_score: the weighted mean of the blendshapes of the
\* expression that the map holds, 0 when it holds none
CalculateExpressionScore(blendshapes, expr) ==
  LET weights == ExpressionBlendshapes(expr)
      held == DOMAIN weights \cap DOMAIN blendshapes
      total_score == SumOver(held, [x \in held |-> blendshapes[x] * weights[x]])
      total_weight == SumOver(held, [x \in held |-> weights[x]])
  IN  IF total_weight = 0 THEN Frac(0, 1) ELSE Frac(total_score, total_weight)

MaxExprLastWins(scores) ==
  IF FracGeq(scores.surprise, scores.smile)
       /\ FracGeq(scores.surprise, scores.sad)
  THEN "surprise"
  ELSE IF FracGeq(scores.sad, scores.smile) THEN "sad"
  ELSE "smile"

\* max(scores, key=scores.get) over the keys smile, sad, surprise in that
\* order: the first key of the largest score
MaxExpr(scores) ==
  IF FracGeq(scores.smile, scores.sad) /\ FracGeq(scores.smile, scores.surprise)
  THEN "smile"
  ELSE IF FracGeq(scores.sad, scores.surprise) THEN "sad"
  ELSE "surprise"

\* the ExpressionScore returned for an empty map
EmptyExpressionScore ==
  [expression |-> "neutral", score |-> Frac(0, 1), confidence |-> Frac(0, 1),
   raw_scores |-> [neutral |-> Frac(0, 1), smile |-> Frac(0, 1),
                   sad |-> Frac(0, 1), surprise |-> Frac(0, 1)]]

\* detect_expression past the test for an empty map
DetectExpressionScored(blendshapes) ==
  LET scores == [smile |-> CalculateExpressionScore(blendshapes, "smile"),
                 sad |-> CalculateExpressionScore(blendshapes, "sad"),
                 surprise |-> CalculateExpressionScore(blendshapes, "surprise")]
      max_expr == MaxExpr(scores)
      max_score == scores[max_expr]
      threshold == ExpressionThreshold(max_expr)
      reached == FracGeq(max_score, Frac(threshold, 1))
      neutral == Frac(100 * max_score.d - max_score.n, max_score.d)
      ratio == Frac(100 * max_score.n, max_score.d * (threshold + 10))
  IN  [expression |-> IF reached THEN max_expr ELSE "neutral",
       score |-> IF reached THEN max_score ELSE neutral,
       confidence |-> IF reached
                      THEN (IF FracGeq(ratio, Frac(100, 1)) THEN Frac(100, 1)
                            ELSE ratio)
                      ELSE neutral,
       raw_scores |-> [neutral |-> neutral, smile |-> scores.smile,
                       sad |-> scores.sad, surprise |-> scores.surprise]]

DetectExpressionNoEmptyCase(blendshapes) == DetectExpressionScored(blendshapes)

\* detect_expression
DetectExpression(blendshapes) ==
  IF DOMAIN blendshapes = {} THEN EmptyExpressionScore
  ELSE DetectExpressionScored(blendshapes)

InitExpr ==
  /\ InitProcess
  /\ qgIn = QgNoInput
  /\ qgOut = QgIdle
  /\ fnIn \in [fn : { "expression" }, blendshapes : BlendMaps,
               called : { FALSE }]
  /\ fnOut = FnNone

DetectExpressionCall ==
  /\ fnIn.fn = "expression"
  /\ ~fnIn.called
  /\ fnIn' = [fnIn EXCEPT !.called = TRUE]
  /\ fnOut' = DetectExpression(fnIn.blendshapes)
  /\ UNCHANGED << procVars, qgVars >>

NextExpr == DetectExpressionCall

SpecExpr == InitExpr /\ [][NextExpr]_vars

(***************************************************************************)
(* Catalog loader (loader.py).  The metadata file, the embeddings file and *)
(* the ids file are what is on disk when a load runs; an array is known by *)
(* its number of rows.                                                     *)
(***************************************************************************)
\* most rows of an embeddings file and most entries of an ids file
MaxFileRows == 2
\* most calls of load and of get_all_embeddings followed
MaxLoaderCalls == 2

\* a file that does not exist, one np.load cannot read, one holding an array
FileMissing == [state |-> "missing", len |-> 0]

FileUnreadable == [state |-> "unreadable", len |-> 0]

FileArray(n) == [state |-> "array", len |-> n]

ArrayFiles ==
  { FileMissing, FileUnreadable } \cup { FileArray(n) : n \in 0..MaxFileRows }

\* celebs.csv: missing, readable, or holding a row from_csv_row rejects
CsvFiles == { "missing", "ok", "bad_row" }

\* an attribute that is None, or an array of n rows
NoArray == [kind |-> "None", len |-> 0]

ArrayOf(n) == [kind |-> "array", len |-> n]

\* CelebDataLoader.__init__
NewLoader == [loaded |-> FALSE, embeddings |-> NoArray, ids |-> NoArray]

\* _load_embeddings: returns early when the embeddings file is missing or
\* unreadable; reads the ids only when their file exists
LoadEmbeddings(ld, emb_file, ids_file) ==
  IF emb_file.state = "missing" THEN ld
  ELSE IF emb_file.state = "unreadable"
  THEN [ld EXCEPT !.embeddings = NoArray]
  ELSE IF ids_file.state = "missing"
  THEN [ld EXCEPT !.embeddings = ArrayOf(emb_file.len)]
  ELSE IF ids_file.state = "unreadable"
  THEN [ld EXCEPT !.embeddings = ArrayOf(emb_file.len), !.ids = NoArray]
  ELSE [ld EXCEPT !.embeddings = ArrayOf(emb_file.len),
                  !.ids = ArrayOf(ids_file.len)]

\* CelebDataLoader.load: nothing when already loaded; the metadata, which
\* may raise; the embeddings and ids; then _loaded = True
LoaderLoad(ld, csv, emb_file, ids_file) ==
  IF ld.loaded THEN [exc |-> NoExc, loader |-> ld]
  ELSE IF csv = "bad_row"
  THEN [exc |-> Untyped(<< "ValueError" >>), loader |-> ld]
  ELSE [exc |-> NoExc,
        loader |-> [LoadEmbeddings(ld, emb_file, ids_file)
                      EXCEPT !.loaded = TRUE]]

\* get_all_embeddings: the error raised (NoExc when it returns) and the
\* pair returned
GetAllEmbeddings(ld) ==
  IF ld.embeddings.kind = "None" \/ ld.ids.kind = "None"
  THEN [exc |-> Untyped(<< "Embeddings not loaded" >>),
        embeddings |-> NoArray, ids |-> NoArray]
  ELSE [exc |-> NoExc, embeddings |-> ld.embeddings, ids |-> ld.ids]

\* no call of the loader has been made
LoaderIdle ==
  [fn |-> "loader", loader |-> NewLoader, calls |-> 0, last |-> "none",
   exc |-> NoExc, embeddings |-> NoArray, ids |-> NoArray]

InitLoader ==
  /\ InitProcess
  /\ qgIn = QgNoInput
  /\ qgOut = QgIdle
  /\ fnIn \in [fn : { "loader" }, csv : CsvFiles, emb_file : ArrayFiles,
               ids_file : ArrayFiles]
  /\ fnOut = LoaderIdle

\* a call of CelebDataLoader.load
LoaderLoadCall ==
  /\ fnIn.fn = "loader"
  /\ fnOut.calls < MaxLoaderCalls
  /\ LET r == LoaderLoad(fnOut.loader, fnIn.csv, fnIn.emb_file, fnIn.ids_file)
     IN  fnOut' = [fnOut EXCEPT !.loader = r.loader, !.calls = @ + 1,
                                !.last = "load", !.exc = r.exc,
                                !.embeddings = NoArray, !.ids = NoArray]
  /\ UNCHANGED << procVars, qgVars, fnIn >>

\* a call of get_all_embeddings
GetAllEmbeddingsCall ==
  /\ fnIn.fn = "loader"
  /\ fnOut.calls < MaxLoaderCalls
  /\ LET r == GetAllEmbeddings(fnOut.loader)
     IN  fnOut' = [fnOut EXCEPT !.calls = @ + 1, !.last = "get_all_embeddings",
                                !.exc = r.exc, !.embeddings = r.embeddings,
                                !.ids = r.ids]
  /\ UNCHANGED << procVars, qgVars, fnIn >>

\* the files of the catalog are written anew: the metadata is readable and
\* the two arrays have n rows
FilesReplaced ==
  /\ fnIn.fn = "loader"
  /\ \E n \in 1..MaxFileRows :
       /\ fnIn' = [fnIn EXCEPT !.csv = "ok", !.emb_file = FileArray(n),
                               !.ids_file = FileArray(n)]
       /\ fnIn' # fnIn
  /\ UNCHANGED << procVars, qgVars, fnOut >>

NextLoader == LoaderLoadCall \/ GetAllEmbeddingsCall \/ FilesReplaced

SpecLoader == InitLoader /\ [][NextLoader]_vars

\* ---- check_image_quality on a measured image ----

\* Settings.blur_threshold, brightness_min, brightness_max, min_face_size
blur_threshold == 100

brightness_min == 40

brightness_max == 250

min_face_size == 80

\* image.shape[:2] of the images, (height, width)
ImgShape == << 400, 400 >>

BlurScores == { 99, 100 }

BrightnessScores == { 39, 40, 250, 251 }

\* face_bbox: None or (x, y, w, h)
NoBBox == [kind |-> "None", x |-> 0, y |-> 0, w |-> 0, h |-> 0]

BBox(x, y, w, h) == [kind |-> "bbox", x |-> x, y |-> y, w |-> w, h |-> h]

BBoxes ==
  { NoBBox } \cup { BBox(x, y, w, h) : x \in { 0, 150 }, y \in { 0, 150 },
                                        w \in { 60, 100 }, h \in { 60, 100 } }

Abs(n) == IF n < 0 THEN -n ELSE n

\* check_face_size
CheckFaceSize(b) == b.w >= min_face_size /\ b.h >= min_face_size

\* check_face_centered with margin_ratio 0.1: the distance of the centres is
\* below 0.3 + 0.1 of the image size, compared in twentieths of a pixel
CheckFaceCentered(b, shape) ==
  /\ 10 * Abs(2 * b.x + b.w - shape[2]) < 8 * shape[2]
  /\ 10 * Abs(2 * b.y + b.h - shape[1]) < 8 * shape[1]

\* is_valid taken from the fresh QualityResult instead of the flags
CheckImageQualityOfDefaultValid(blur_score, brightness, shape, face_bbox) ==
  LET has == face_bbox.kind # "None" IN
  [is_blurry |-> blur_score < blur_threshold,
   is_dark |-> brightness < brightness_min,
   is_bright |-> brightness > brightness_max,
   face_size_ok |-> IF has THEN CheckFaceSize(face_bbox) ELSE TRUE,
   face_centered |-> IF has THEN CheckFaceCentered(face_bbox, shape) ELSE TRUE,
   is_valid |-> TRUE]

\* check_image_quality of an image of the given blur score, brightness and
\* shape: the face flags keep the defaults of QualityResult without a bbox
CheckImageQualityOf(blur_score, brightness, shape, face_bbox) ==
  LET has == face_bbox.kind # "None"
      is_blurry == blur_score < blur_threshold
      is_dark == brightness < brightness_min
      is_bright == brightness > brightness_max
      face_size_ok == IF has THEN CheckFaceSize(face_bbox) ELSE TRUE
      face_centered ==
        IF has THEN CheckFaceCentered(face_bbox, shape) ELSE TRUE
  IN  [is_blurry |-> is_blurry, is_dark |-> is_dark, is_bright |-> is_bright,
       face_size_ok |-> face_size_ok, face_centered |-> face_centered,
       is_valid |-> (~is_blurry /\ ~is_dark /\ ~is_bright
                     /\ face_size_ok /\ face_centered)]

InitQuality ==
  /\ InitProcess
  /\ qgIn = QgNoInput
  /\ qgOut = QgIdle
  /\ fnIn \in [fn : { "check_image_quality" },
               blur_score : BlurScores,
               brightness : BrightnessScores,
               face_bbox : BBoxes,
               called : { FALSE }]
  /\ fnOut = FnNone

CheckImageQualityCall ==
  /\ fnIn.fn = "check_image_quality"
  /\ ~fnIn.called
  /\ fnIn' = [fnIn EXCEPT !.called = TRUE]
  /\ fnOut' = CheckImageQualityOf(fnIn.blur_score, fnIn.brightness, ImgShape,
                                  fnIn.face_bbox)
  /\ UNCHANGED << procVars, qgVars >>

NextQuality == CheckImageQualityCall

SpecQuality == InitQuality /\ [][NextQuality]_vars

\* ---- DeepFaceEmbedder.extract ----

\* the number of faces DeepFace.represent can return
MaxFaces == 2

\* the embeddings DeepFace.represent returns, of integer norm
FaceEmbeddings == { << 3, 4 >>, << 6, 8 >>, << 0, 5 >>, << 5, 12 >> }

\* the message of the ValueError of DeepFace for an image without a face,
\* and of another ValueError of DeepFace
NoFaceMessage == << "Face could not be detected", "in numpy array" >>

OtherValueMessage == << "Invalid model_name passed" >>

\* what DeepFace.represent does: it returns None or a list of faces, or it
\* raises ValueError or another exception
RepresentNone == [kind |-> "None", faces |-> << >>, msg |-> << >>]

RepresentResults(f) == [kind |-> "results", faces |-> f, msg |-> << >>]

RepresentValueError(m) == [kind |-> "ValueError", faces |-> << >>, msg |-> m]

RepresentException == [kind |-> "Exception", faces |-> << >>,
                       msg |-> << "represent" >>]

RepresentOutcomes ==
  { RepresentNone, RepresentException,
    RepresentValueError(NoFaceMessage), RepresentValueError(OtherValueMessage) }
    \cup { RepresentResults(f) :
             f \in UNION { [1..n -> FaceEmbeddings] : n \in 0..MaxFaces } }

NoEmbedding == [vec |-> << >>, den |-> 1]

\* DeepFaceEmbedder.extract: the error raised (NoExc when it returns) and the
\* embedding returned, the first face's embedding over its norm.  The
\* FaceDetectionError raised for an empty result is raised inside the try
\* block: it is no ValueError, so `except Exception` catches it and raises
\* SystemError(INTERNAL_ERROR) in its place
DeepFaceExtract(deepface, r) ==
  LET ret(e, v) == [exc |-> e, embedding |-> v] IN
  IF ~deepface
  THEN ret(Typed("MODEL_LOAD_ERROR", << "ensure_initialized" >>), NoEmbedding)
  ELSE IF r.kind = "ValueError"
  THEN IF Contains(r.msg, << "Face could not be detected" >>)
       THEN ret(Typed("NO_FACE_DETECTED", << "ValueError" >>), NoEmbedding)
       ELSE ret(Untyped(r.msg), NoEmbedding)
  ELSE IF r.kind = "Exception"
  THEN ret(Typed("INTERNAL_ERROR", r.msg), NoEmbedding)
  ELSE IF r.kind = "None" \/ r.faces = << >>
  THEN ret(Typed("INTERNAL_ERROR", << "no results" >>), NoEmbedding)
  ELSE ret(NoExc, [vec |-> r.faces[1], den |-> Norm(r.faces[1])])

InitExtract ==
  /\ InitProcess
  /\ qgIn = QgNoInput
  /\ qgOut = QgIdle
  /\ fnIn \in [fn : { "extract" }, deepface : BOOLEAN,
               represent : RepresentOutcomes,
               enforce_detection : BOOLEAN, align : BOOLEAN,
               called : { FALSE }]
  /\ fnOut = FnNone

DeepFaceExtractCall ==
  /\ fnIn.fn = "extract"
  /\ ~fnIn.called
  /\ fnIn' = [fnIn EXCEPT !.called = TRUE]
  /\ fnOut' = DeepFaceExtract(fnIn.deepface, fnIn.represent)
  /\ UNCHANGED << procVars, qgVars >>

NextExtract == DeepFaceExtractCall

SpecExtract == InitExtract /\ [][NextExtract]_vars

(***************************************************************************)
(* Properties.                                                             *)
(***************************************************************************)
\* analyze has ended and the handler has its outcome in hand
Ended(c) == pc[c] = "send"

\* the stage that raised in this run, if any
Failed(c) == \E i \in 1..Len(stageLog[c]) : stageLog[c][i].exc # NoExc

LastEntry(c) == stageLog[c][Len(stageLog[c])]

RanOk(c, st) ==
  \E i \in 1..Len(stageLog[c]) :
    stageLog[c][i].stage = st /\ stageLog[c][i].exc = NoExc

Ran(c, st) == \E i \in 1..Len(stageLog[c]) : stageLog[c][i].stage = st

StepsNotified(c) == { notified[c][i][1] : i \in 1..Len(notified[c]) }

C1_Percents == << 10, 25, 40, 60, 80, 100 >>

C1_Plan == [i \in 1..6 |-> << AnalyzeStep[i], C1_Percents[i] >>]

\* C1: the notifications handed to the callback are always a prefix of
\* (received,10), (face_detected,25), (expression_analyzed,40),
\* (embedding_extracted,60), (matching,80), (completed,100), and when analyze
\* has ended with a callback the whole sequence was handed over exactly if
\* analyze returned a result.
C1_Thm ==
  \A c \in Conns :
    /\ IsPrefix(notified[c], C1_Plan)
    /\ (Ended(c) /\ hasCallback[c])
         => (notified[c] = C1_Plan <=> outcome[c].status = "result")

C1_Wit ==
  \E c \in Conns :
    /\ Ended(c) /\ hasCallback[c]
    /\ notified[c] = C1_Plan
    /\ outcome[c].status = "result"

\* C2: an exception that is not a typed domain error, raised anywhere in a
\* call of analyze (data loading included), reaches the caller as a typed
\* INTERNAL_ERROR whose message contains the original message; no untyped
\* exception leaves analyze.
C2_Claim ==
  \A c \in Conns :
    (Ended(c) /\ Failed(c) /\ LastEntry(c).exc.kind = "untyped")
      => /\ outcome[c].status = "error"
         /\ outcome[c].err.kind = "typed"
         /\ outcome[c].err.code = "INTERNAL_ERROR"
         /\ Contains(outcome[c].err.msg, LastEntry(c).exc.msg)

\* C3: a typed domain error raised by a stage reaches the caller as that
\* same error, with the same code and message, never as a wrapped
\* INTERNAL_ERROR.
C3_Thm ==
  \A c \in Conns :
    (Ended(c) /\ Failed(c) /\ LastEntry(c).exc.kind = "typed")
      => outcome[c] = [status |-> "error", err |-> LastEntry(c).exc]

C3_Wit ==
  \E c \in Conns :
    /\ Ended(c) /\ Failed(c)
    /\ LastEntry(c).stage = "embed"
    /\ LastEntry(c).exc.kind = "typed"
    /\ outcome[c].err.code = "MODEL_LOAD_ERROR"

\* C4: once the detector has returned zero faces, the run never crops,
\* extracts an embedding or queries the catalog, never notifies
\* expression_analyzed, embedding_extracted, matching or completed, and ends
\* with the NO_FACE_DETECTED error.
C4_Thm ==
  \A c \in Conns :
    (RanOk(c, "detect") /\ numFaces[c] = 0)
      => /\ ~Ran(c, "crop") /\ ~Ran(c, "embed") /\ ~Ran(c, "catalog")
         /\ StepsNotified(c) \cap { "expression_analyzed",
              "embedding_extracted", "matching", "completed" } = {}
         /\ outcome[c].status # "result"
         /\ Ended(c) => /\ outcome[c].status = "error"
                        /\ outcome[c].err.kind = "typed"
                        /\ outcome[c].err.code = "NO_FACE_DETECTED"

C4_Wit ==
  \E c \in Conns :
    /\ RanOk(c, "detect") /\ numFaces[c] = 0
    /\ Ended(c)
    /\ outcome[c].err.code = "NO_FACE_DETECTED"

\* the outcome of a run whose stages behaved as the log says
C5_Expected(log) ==
  IF log = << >> \/ log[Len(log)].exc = NoExc
  THEN [status |-> "result", err |-> NoExc]
  ELSE IF log[Len(log)].exc.kind = "typed"
            \/ log[Len(log)].stage \in { "load_catalog", "load_index" }
  THEN [status |-> "error", err |-> log[Len(log)].exc]
  ELSE [status |-> "error",
        err |-> Typed("INTERNAL_ERROR",
                      << "pipeline_error:" >> \o log[Len(log)].exc.msg)]

C5_NotifyStep ==
  \A c \in Conns :
    (pc[c] \in NotifyPoints /\ pc'[c] # pc[c])
      => /\ pc'[c] = NextPc(pc[c])
         /\ stageLog'[c] = stageLog[c]
         /\ exc'[c] = exc[c]
         /\ outcome'[c] = outcome[c]
         /\ hasCallback[c] => Len(notified'[c]) = Len(notified[c]) + 1

C5_SameOutcome ==
  \A c \in Conns : Ended(c) => outcome[c] = C5_Expected(stageLog[c])

\* C5: a notification step, whether or not the callback raises in it and
\* whether or not it raised before, leaves the pipeline untouched and goes
\* on to the next statement, so the later notifications are still made; and
\* every run, with or without a callback, ends with the outcome its stages
\* determine (the result, or the error of the stage that failed).
C5_Thm == [][C5_NotifyStep]_vars /\ []C5_SameOutcome

C5_Wit ==
  \E c \in Conns :
    /\ Ended(c) /\ hasCallback[c]
    /\ cbRaisedAt[c] = 1
    /\ Len(notified[c]) = 6
    /\ outcome[c].status = "result"

C6_AtMostOnce ==
  \A c \in Conns :
    /\ \A i, j \in 1..Len(stageLog[c]) :
         stageLog[c][i].stage = stageLog[c][j].stage => i = j
    /\ \A i \in 1..Len(stageLog[c]) :
         stageLog[c][i].exc # NoExc => i = Len(stageLog[c])
    /\ Failed(c) => outcome[c].status # "result"

C6_NothingAfterFailure ==
  \A c \in Conns :
    (Failed(c) /\ pc'[c] # "handled")
      => /\ stageLog'[c] = stageLog[c]
         /\ notified'[c] = notified[c]
         /\ outcome'[c].status # "result"

\* C6: within one call of analyze no stage is executed twice, and once a
\* stage has failed no further stage is executed, no further notification
\* is made and no result is returned.
C6_Thm == []C6_AtMostOnce /\ [][C6_NothingAfterFailure]_vars

C6_Wit ==
  \E c \in Conns :
    /\ Ended(c) /\ Failed(c)
    /\ LastEntry(c).stage = "crop"
    /\ Len(stageLog[c]) = 6
    /\ Len(notified[c]) = 4
    /\ outcome[c].status = "error"

C7_ObtainedLoaded ==
  /\ (plLoader \/ loaderCached) => loader.loaded
  /\ (plIndex \/ indexCached) => indexLoaded
  /\ \A c \in Conns :
       pc[c] \in (InPipeline \ { "ensure_loader", "load_catalog", "ensure_index",
                                 "load_index", "except" })
         => loader.loaded /\ indexLoaded

\* C7 as claimed: the body of the catalog load and the body of the index
\* load are each executed at most once over the life of the process, and no
\* caller holds a loader or an index whose load has not completed.
C7_Claim ==
  /\ loadRuns <= 1
  /\ indexRuns <= 1
  /\ C7_ObtainedLoaded

\* C7: the body of the catalog load and the body of the index load each run
\* to the end at most once over the life of the process, two executions of
\* a body never overlap, and no caller holds a loader or an index whose load
\* has not completed.
C7_Thm ==
  /\ loadDone <= 1
  /\ indexDone <= 1
  /\ Cardinality(loadActive) <= 1
  /\ Cardinality(indexActive) <= 1
  /\ C7_ObtainedLoaded

C7_Wit ==
  /\ ~started
  /\ loadDone = 1 /\ indexDone = 1
  /\ \E c, d \in Conns :
       /\ c # d
       /\ pc[c] = "handled" /\ sent[c] = << Msg("analyze_result", "") >>
       /\ pc[d] = "n_received"

\* C8: while one request is inside landmark detection or embedding
\* extraction, a message that arrives on another connection can be taken up:
\* the other connection's handler is able to start.
C8_Claim ==
  \A c, d \in Conns :
    (c # d /\ pc[c] \in BlockingStages /\ pc[d] = "idle")
      => ENABLED Receive(d)

\* C9: a request that has been inside a call of its pipeline for longer than
\* ws_timeout_seconds is no longer running: the handler has ended it with a
\* timeout error.
C9_Claim ==
  \A c \in Conns :
    pc[c] \in InPipeline => elapsed[c] <= ws_timeout_seconds

\* C10: QualityGate.check, strict or not, raises NO_FACE_DETECTED for 0
\* faces and MULTIPLE_FACES_DETECTED for more than max_faces faces, having
\* called nothing but the face-count validation; for 1..max_faces faces it
\* raises neither of the two and the validation was still its first call.
C10_Thm ==
  qgIn.called =>
    /\ qgIn.num_faces = 0
         => /\ qgOut.exc.kind = "typed"
            /\ qgOut.exc.code = "NO_FACE_DETECTED"
            /\ qgOut.calls = << "validate_face_count" >>
    /\ qgIn.num_faces > qgIn.max_faces
         => /\ qgOut.exc.kind = "typed"
            /\ qgOut.exc.code = "MULTIPLE_FACES_DETECTED"
            /\ qgOut.calls = << "validate_face_count" >>
    /\ (1 <= qgIn.num_faces /\ qgIn.num_faces <= qgIn.max_faces)
         => /\ qgOut.exc.code \notin { "NO_FACE_DETECTED",
                                        "MULTIPLE_FACES_DETECTED" }
            /\ qgOut.calls[1] = "validate_face_count"
            /\ Len(qgOut.calls) >= 2

C10_Wit ==
  /\ qgIn.called
  /\ ~qgIn.strict
  /\ qgIn.num_faces > qgIn.max_faces
  /\ ~CheckImageQuality(qgIn.flags).is_valid
  /\ qgOut.exc.code = "MULTIPLE_FACES_DETECTED"

\* the number of faces passes validate_face_count
ValidCount == 1 <= qgIn.num_faces /\ qgIn.num_faces <= qgIn.max_faces

\* the result of QualityGate.check carries the five flags measured
SameFlags ==
  \A k \in { "is_blurry", "is_dark", "is_bright", "face_size_ok",
             "face_centered" } : qgOut.quality[k] = qgIn.flags[k]

\* C11 as stated: QualityGate.check with strict=False never raises, whatever
\* the flags and whatever the number of faces, and returns the QualityResult
\* with those flags.
C11_Claim ==
  (qgIn.called /\ ~qgIn.strict) => (qgOut.exc = NoExc /\ SameFlags)

\* C11: QualityGate.check with strict=False and a number of faces in
\* 1..max_faces never raises, for every combination of the five flags, and
\* returns the QualityResult with those flags; with 0 faces or more than
\* max_faces faces it raises the face-count error.
C11_Thm ==
  (qgIn.called /\ ~qgIn.strict) =>
    /\ ValidCount => (qgOut.exc = NoExc /\ SameFlags)
    /\ ~ValidCount
         => qgOut.exc.code \in { "NO_FACE_DETECTED", "MULTIPLE_FACES_DETECTED" }

C11_Wit ==
  /\ qgIn.called
  /\ ~qgIn.strict
  /\ ValidCount
  /\ qgIn.flags.is_blurry
  /\ ~qgIn.flags.face_centered
  /\ qgOut.exc = NoExc
  /\ ~qgOut.quality.is_valid

\* the code of the first violated condition in the order blurry, dark,
\* bright, face too small, face not centered; "" when none is violated
FirstViolated(f) ==
  IF f.is_blurry THEN "IMAGE_TOO_BLURRY"
  ELSE IF f.is_dark THEN "IMAGE_TOO_DARK"
  ELSE IF f.is_bright THEN "IMAGE_TOO_BRIGHT"
  ELSE IF ~f.face_size_ok THEN "FACE_TOO_SMALL"
  ELSE IF ~f.face_centered THEN "FACE_OUT_OF_FRAME"
  ELSE ""

\* C12: QualityGate.check with strict=True and a valid number of faces raises
\* exactly when is_valid is False, and the error carries the code of the
\* first violated condition in the order blurry > dark > bright > face too
\* small > face not centered; when it does not raise it returns the flags.
C12_Thm ==
  (qgIn.called /\ qgIn.strict /\ ValidCount) =>
    /\ (qgOut.exc # NoExc) <=> ~CheckImageQuality(qgIn.flags).is_valid
    /\ (qgOut.exc # NoExc) <=>
         \/ \E k \in { "is_blurry", "is_dark", "is_bright" } : qgIn.flags[k]
         \/ ~qgIn.flags.face_size_ok
         \/ ~qgIn.flags.face_centered
    /\ qgOut.exc # NoExc
         => /\ qgOut.exc.kind = "typed"
            /\ qgOut.exc.code = FirstViolated(qgIn.flags)
    /\ qgOut.exc = NoExc => SameFlags

C12_Wit ==
  /\ qgIn.called
  /\ qgIn.strict
  /\ ValidCount
  /\ ~qgIn.flags.is_blurry
  /\ qgIn.flags.is_bright
  /\ ~qgIn.flags.face_size_ok
  /\ ~qgIn.flags.face_centered
  /\ qgOut.exc.code = "IMAGE_TOO_BRIGHT"

\* C17: for every strategy (linear, sigmoid, power, percentile, and the
\* linear fallback of an unknown method name), every min_score <= max_score
\* and every similarity, below 0 and above 1 included, ScoreScaler.scale
\* returns a value within [min_score, max_score].
C17_Claim ==
  (fnIn.fn = "scale" /\ fnIn.called) =>
    /\ 10 * fnIn.min_score <= fnOut.score
    /\ fnOut.score <= 10 * fnIn.max_score

\* the index of the first entry of a list below the threshold, one past the
\* end when there is none
FirstLow(list, min_similarity) ==
  LET low == { i \in 1..Len(list) : list[i].sim < min_similarity }
  IN  IF low = {} THEN Len(list) + 1
      ELSE CHOOSE i \in low : \A j \in low : i <= j

\* the entries that precede the first sub-threshold entry, truncated to n
EarlyStop(list, min_similarity, n) ==
  LET m == FirstLow(list, min_similarity) - 1
  IN  SubSeq(list, 1, IF m < n THEN m ELSE n)

\* the list the selection works on: the diversity-adjusted one for
\* TopKSelector.select with a positive penalty, the input itself otherwise
SelectionInput ==
  IF fnOut.fn = "select" /\ fnIn.diversity_penalty > 0
  THEN ApplyDiversity(fnIn.sims, fnIn.diversity_penalty, 1)
  ELSE fnIn.sims

\* the returned entries are the given entries of the list, in order
C13_Returns(expected) ==
  /\ Len(fnOut.results) = Len(expected)
  /\ \A i \in 1..Len(expected) :
       /\ fnOut.results[i].celeb_id = expected[i].id
       /\ IF fnOut.fn = "select"
          THEN fnOut.results[i].score = ScaleSimilarityToScore(expected[i].sim)
          ELSE fnOut.results[i].raw_similarity = expected[i].sim

\* C13 as stated: select_top_k and TopKSelector.select return at most k
\* entries, and the returned entries are exactly the entries that precede
\* the first sub-threshold entry of the (diversity-adjusted) input,
\* truncated to k.
C13_Claim ==
  (fnIn.fn = "topk" /\ fnIn.called) =>
    /\ Len(fnOut.results) <= fnIn.k
    /\ C13_Returns(EarlyStop(SelectionInput, fnIn.min_similarity, fnIn.k))

\* C13: select_top_k returns exactly the entries that precede the first
\* sub-threshold entry of its input, truncated to k; TopKSelector.select
\* returns those entries of the diversity-adjusted input truncated to the
\* smaller of k and 3.  So both return at most k entries, each of similarity
\* >= min_similarity, and an entry below the threshold ends the selection
\* even when fewer than k entries were collected and later entries are above
\* the threshold.
C13_Thm ==
  (fnIn.fn = "topk" /\ fnIn.called) =>
    LET n == IF fnOut.fn = "select" /\ fnIn.k > 3 THEN 3 ELSE fnIn.k
        expected == EarlyStop(SelectionInput, fnIn.min_similarity, n)
    IN  /\ Len(fnOut.results) <= fnIn.k
        /\ C13_Returns(expected)
        /\ \A i \in 1..Len(expected) : expected[i].sim >= fnIn.min_similarity
        /\ fnOut.fn = "select_top_k"
             => \A i \in 1..Len(fnOut.results) :
                  fnOut.results[i].raw_similarity >= fnIn.min_similarity

\* a low entry in second place ends the selection after one entry although
\* k is 3 and the third entry is above the threshold
C13_Wit ==
  /\ fnIn.fn = "topk"
  /\ fnIn.called
  /\ fnOut.fn = "select_top_k"
  /\ fnIn.k = 3
  /\ Len(fnIn.sims) = 3
  /\ fnIn.sims[1].sim >= fnIn.min_similarity
  /\ fnIn.sims[2].sim < fnIn.min_similarity
  /\ fnIn.sims[3].sim >= fnIn.min_similarity
  /\ Len(fnOut.results) = 1

\* C14: every list of top matches returned by get_top_k_matches, the list
\* analyze puts into its AnalysisResult, holds at most the configured K
\* (Settings.top_k, and the k of the selector's TopKConfig) entries and at
\* most 3.
C14_Claim ==
  (fnIn.fn = "matches" /\ fnIn.called /\ fnOut.fn = "get_top_k_matches") =>
    /\ Len(fnOut.results) <= fnIn.top_k
    /\ Len(fnOut.results) <= TopKConfigDefault.k
    /\ Len(fnOut.results) <= 3

\* C15: in every list returned by TopKSelector.select the entry at position
\* 1 has rank gold, at position 2 silver and at position 3 bronze, there is
\* no fourth entry, no rank is used twice, and the entries are the selected
\* similarity results in their order.
C15_Thm ==
  (fnIn.fn = "topk" /\ fnIn.called /\ fnOut.fn = "select") =>
    LET selected == SelectTopK(SelectionInput, fnIn.k, fnIn.min_similarity)
    IN  /\ Len(fnOut.results) <= 3
        /\ \A i \in 1..Len(fnOut.results) :
             /\ fnOut.results[i].rank = << "gold", "silver", "bronze" >>[i]
             /\ fnOut.results[i].celeb_id = selected[i].celeb_id
             /\ fnOut.results[i].score = selected[i].scaled_score
        /\ \A i, j \in 1..Len(fnOut.results) :
             i # j => fnOut.results[i].rank # fnOut.results[j].rank
        /\ Len(fnOut.results) = (IF Len(selected) < 3 THEN Len(selected) ELSE 3)

\* four results were selected and three are ranked
C15_Wit ==
  /\ fnIn.fn = "topk"
  /\ fnIn.called
  /\ fnOut.fn = "select"
  /\ Len(SelectTopK(SelectionInput, fnIn.k, fnIn.min_similarity)) = 4
  /\ Len(fnOut.results) = 3
  /\ fnOut.results[3].rank = "bronze"

\* a valid input of compute_similarities: a query and a 2-dimensional array
\* of candidates of the query's dimension, one id per candidate row and at
\* least one row, and a known method
SimValidInput ==
  /\ fnIn.user.kind = "array"
  /\ fnIn.embeddings.kind = "2d"
  /\ fnIn.embeddings.dim = Len(fnIn.user.vec)
  /\ Len(fnIn.ids) = Len(fnIn.embeddings.rows)
  /\ Len(fnIn.ids) > 0
  /\ fnIn.method \in { "cosine", "euclidean" }

\* the similarity of candidate row i to the query, over the denominator of
\* the result
RowSim(i) ==
  IF fnIn.method = "cosine"
  THEN BatchCosineSimilarity(fnIn.user.vec, fnIn.embeddings.rows)[i]
  ELSE (IF fnOut.den = 1 /\ Distance(fnIn.embeddings.rows[i], fnIn.user.vec) = 0
        THEN 1
        ELSE fnOut.den - Distance(fnIn.embeddings.rows[i], fnIn.user.vec))

\* the bijections from the positions of the result to the candidate rows
RowOrders(n) ==
  { f \in [1..n -> 1..n] : \A i, j \in 1..n : i # j => f[i] # f[j] }

\* C16: for every valid input compute_similarities returns exactly one
\* (id, similarity) pair per candidate row, ordered non-increasing by
\* similarity, and candidates of equal similarity appear in the relative
\* order they have in the input.
C16_Thm ==
  (fnIn.fn = "similarity" /\ fnIn.called /\ SimValidInput) =>
    LET n == Len(fnIn.ids) IN
    /\ fnOut.exc = NoExc
    /\ Len(fnOut.pairs) = n
    /\ \A k \in 1..(n - 1) : fnOut.pairs[k].sim >= fnOut.pairs[k + 1].sim
    /\ \E f \in RowOrders(n) :
         /\ \A k \in 1..n :
              /\ fnOut.pairs[k].id = fnIn.ids[f[k]]
              /\ fnOut.pairs[k].sim = RowSim(f[k])
         /\ \A k, l \in 1..n :
              (k < l /\ fnOut.pairs[k].sim = fnOut.pairs[l].sim) => f[k] < f[l]
    /\ \A k, l \in 1..n :
         (k < l /\ fnOut.pairs[k].sim = fnOut.pairs[l].sim
            /\ fnOut.pairs[k].id # fnOut.pairs[l].id)
           => \E i, j \in 1..n :
                /\ i < j
                /\ fnIn.ids[i] = fnOut.pairs[k].id
                /\ fnIn.ids[j] = fnOut.pairs[l].id

\* two candidates of equal similarity behind a better third one: the result
\* starts with the third and keeps the two in their input order
C16_Wit ==
  /\ fnIn.fn = "similarity"
  /\ fnIn.called
  /\ SimValidInput
  /\ fnIn.ids = << "a", "b", "a" >>
  /\ fnIn.embeddings.rows[1] = fnIn.embeddings.rows[2]
  /\ RowSim(3) > RowSim(1)
  /\ fnOut.pairs[2].id = "a"
  /\ fnOut.pairs[3].id = "b"
  /\ fnOut.pairs[2].sim = fnOut.pairs[3].sim

\* the id set of the expression asked for, empty for an unknown label
FilterSet ==
  IF fnIn.index.present /\ fnIn.expression = "smile"
  THEN fnIn.index.celebs ELSE {}

\* C18: for embeddings and ids aligned row for row,
\* get_filtered_embeddings(label, embeddings, ids) returns exactly the rows
\* whose id belongs to the expression's id set, embeddings and ids still
\* aligned and in their original relative order; when the set is empty or
\* the label unknown it returns the input unchanged.
C18_Claim ==
  (fnIn.fn = "filter" /\ fnIn.called
     /\ Len(fnIn.ids) = Len(fnIn.embeddings)) =>
    LET kept == { i \in 1..Len(fnIn.ids) : fnIn.ids[i] \in FilterSet }
        order == CHOOSE f \in [1..Cardinality(kept) -> kept] :
                   \A i, j \in 1..Cardinality(kept) : i < j => f[i] < f[j]
    IN  /\ fnOut.exc = NoExc
        /\ FilterSet = {}
             => (fnOut.embeddings = fnIn.embeddings /\ fnOut.ids = fnIn.ids)
        /\ FilterSet # {}
             => /\ Len(fnOut.ids) = Cardinality(kept)
                /\ Len(fnOut.embeddings) = Cardinality(kept)
                /\ \A i \in 1..Cardinality(kept) :
                     /\ fnOut.ids[i] = fnIn.ids[order[i]]
                     /\ fnOut.embeddings[i] = fnIn.embeddings[order[i]]

\* C19: detect_expression on an empty blendshape map returns expression
\* NEUTRAL with score 0, confidence 0 and a raw score of 0 for every
\* expression label.
C19_Thm ==
  (fnIn.fn = "expression" /\ fnIn.called /\ DOMAIN fnIn.blendshapes = {}) =>
    /\ fnOut.expression = "neutral"
    /\ fnOut.score.n = 0
    /\ fnOut.confidence.n = 0
    /\ DOMAIN fnOut.raw_scores = { Expression[i] : i \in 1..Len(Expression) }
    /\ \A e \in DOMAIN fnOut.raw_scores : fnOut.raw_scores[e].n = 0

C19_Wit ==
  /\ fnIn.fn = "expression"
  /\ fnIn.called
  /\ DOMAIN fnIn.blendshapes = {}
  /\ fnOut.expression = "neutral"
  /\ fnOut.raw_scores.smile.n = 0

\* the score of an expression as the weighted mean of the held blendshapes
ExprScore(e) == CalculateExpressionScore(fnIn.blendshapes, e)

\* the expressions of the highest score among smile, sad, surprise
C20_Best ==
  { e \in { "smile", "sad", "surprise" } :
      \A o \in { "smile", "sad", "surprise" } :
        ExprScore(e).n * ExprScore(o).d >= ExprScore(o).n * ExprScore(e).d }

\* the first of them in the order smile, sad, surprise
C20_MaxExpr ==
  IF "smile" \in C20_Best THEN "smile"
  ELSE IF "sad" \in C20_Best THEN "sad"
  ELSE "surprise"

\* C20: for every non-empty blendshape map detect_expression picks max_expr,
\* the expression of the highest score among smile, sad, surprise, the first
\* in that order on equal scores, and returns max_expr exactly when its score
\* is >= its own threshold (smile 0.3, sad 0.25, surprise 0.35); otherwise it
\* returns NEUTRAL, even if an expression of lower score reaches its own
\* threshold.
C20_Thm ==
  (fnIn.fn = "expression" /\ fnIn.called /\ DOMAIN fnIn.blendshapes # {}) =>
    LET th == [smile |-> 30, sad |-> 25, surprise |-> 35]
        m == C20_MaxExpr
        reached == ExprScore(m).n >= th[m] * ExprScore(m).d
    IN  /\ reached => fnOut.expression = m
        /\ ~reached => fnOut.expression = "neutral"
        /\ fnOut.expression \in { m, "neutral" }

\* smile has the highest score, 0.29, below its threshold 0.3; sad has 0.26,
\* above its threshold 0.25; the result is NEUTRAL
C20_Wit ==
  /\ fnIn.fn = "expression"
  /\ fnIn.called
  /\ DOMAIN fnIn.blendshapes = { "mouthSmileLeft", "mouthFrownLeft" }
  /\ fnIn.blendshapes["mouthSmileLeft"] = 29
  /\ fnIn.blendshapes["mouthFrownLeft"] = 26
  /\ fnOut.expression = "neutral"

\* smile and sad share the highest score, above both thresholds; the result
\* is smile
C20_WitTie ==
  /\ fnIn.fn = "expression"
  /\ fnIn.called
  /\ DOMAIN fnIn.blendshapes = { "mouthSmileLeft", "mouthFrownLeft" }
  /\ fnIn.blendshapes["mouthSmileLeft"] = 40
  /\ fnIn.blendshapes["mouthFrownLeft"] = 40
  /\ fnOut.expression = "smile"

\* C21: after the catalog has been loaded the number of catalog embeddings
\* equals the number of catalog ids, and every (embeddings, ids) pair that
\* get_all_embeddings returns has equal lengths.
C21_Claim ==
  fnIn.fn = "loader" =>
    /\ (fnOut.loader.loaded /\ fnOut.loader.embeddings.kind = "array"
          /\ fnOut.loader.ids.kind = "array")
         => fnOut.loader.embeddings.len = fnOut.loader.ids.len
    /\ (fnOut.last = "get_all_embeddings" /\ fnOut.exc = NoExc)
         => fnOut.embeddings.len = fnOut.ids.len

\* C28: whenever CelebDataLoader.is_loaded is True, get_all_embeddings
\* returns the embeddings and ids without raising: a load that could not
\* obtain the embeddings or the ids does not leave the loader marked as
\* loaded.
C28_Claim ==
  (fnIn.fn = "loader" /\ fnOut.loader.loaded) =>
    GetAllEmbeddings(fnOut.loader).exc = NoExc

\* one of the four conditions the validation of compute_similarities tests:
\* no candidate (the count is taken on celeb_ids), a candidate matrix that is
\* not 2-D (None included), no query, or a query of another dimension
SimInvalidInput ==
  \/ Len(fnIn.ids) = 0
  \/ fnIn.embeddings.kind # "2d"
  \/ fnIn.user.kind = "None"
  \/ fnIn.embeddings.dim # Len(fnIn.user.vec)

\* C22: compute_similarities raises one of its input-validation errors, and
\* returns no pair, exactly when the candidate count is 0, the candidate
\* matrix is not 2-D, the query is null or the query dimension differs from
\* the candidate dimension.
C22_Thm ==
  (fnIn.fn = "similarity" /\ fnIn.called) =>
    /\ SimInvalidInput <=>
         /\ fnOut.exc # NoExc
         /\ fnOut.exc.msg[1] \in SimilarityValidationErrors
    /\ SimInvalidInput => fnOut.pairs = << >>

\* a 2-D matrix of the query's dimension with no id is refused
C22_Wit ==
  /\ fnIn.fn = "similarity"
  /\ fnIn.called
  /\ fnIn.embeddings.kind = "2d"
  /\ Len(fnIn.embeddings.rows) > 0
  /\ fnIn.user.kind = "array"
  /\ Len(fnIn.user.vec) = fnIn.embeddings.dim
  /\ Len(fnIn.ids) = 0
  /\ fnOut.exc # NoExc
  /\ fnOut.exc.msg[1] = "No candidate embeddings"

\* a valid input with a supported method passes the validation
C22_WitValid ==
  /\ fnIn.fn = "similarity"
  /\ fnIn.called
  /\ ~SimInvalidInput
  /\ fnOut.exc = NoExc
  /\ Len(fnOut.pairs) > 0

\* C23: every QualityResult of check_image_quality has is_valid equal to the
\* conjunction of not is_blurry, not is_dark, not is_bright, face_size_ok and
\* face_centered; without a face bounding box face_size_ok and face_centered
\* are True and is_valid is decided by blur and brightness alone.
C23_Thm ==
  (fnIn.fn = "check_image_quality" /\ fnIn.called) =>
    /\ fnOut.is_valid <=>
         (~fnOut.is_blurry /\ ~fnOut.is_dark /\ ~fnOut.is_bright
            /\ fnOut.face_size_ok /\ fnOut.face_centered)
    /\ fnIn.face_bbox.kind = "None" =>
         /\ fnOut.face_size_ok
         /\ fnOut.face_centered
         /\ fnOut.is_valid <=>
              /\ fnIn.blur_score >= blur_threshold
              /\ fnIn.brightness >= brightness_min
              /\ fnIn.brightness <= brightness_max

\* a sharp, well lit image whose face is too small is not valid
C23_Wit ==
  /\ fnIn.fn = "check_image_quality"
  /\ fnIn.called
  /\ fnIn.face_bbox.kind = "bbox"
  /\ ~fnOut.is_blurry
  /\ ~fnOut.is_dark
  /\ ~fnOut.is_bright
  /\ ~fnOut.face_size_ok
  /\ fnOut.face_centered
  /\ ~fnOut.is_valid

\* a blurry image without a bounding box has both face flags True
C23_WitNoBBox ==
  /\ fnIn.fn = "check_image_quality"
  /\ fnIn.called
  /\ fnIn.face_bbox.kind = "None"
  /\ fnOut.is_blurry
  /\ fnOut.face_size_ok
  /\ fnOut.face_centered
  /\ ~fnOut.is_valid

\* the number of entries of the input before position i that carry its id
Earlier(i) ==
  Cardinality({ j \in 1..(i - 1) : fnIn.sims[j].id = fnIn.sims[i].id })

\* the similarity the claim gives the input entry at position i
C24_Adjusted(i) ==
  IF Earlier(i) < fnIn.same_celeb_limit THEN fnIn.sims[i].sim
  ELSE fnIn.sims[i].sim
         - fnIn.penalty * (Earlier(i) - fnIn.same_celeb_limit + 1)

\* C24: apply_diversity leaves the first same_celeb_limit occurrences of an
\* id unchanged, subtracts penalty * (earlier occurrences - same_celeb_limit
\* + 1) from every further one, and returns the same ids, one entry per input
\* entry, in non-increasing order of adjusted similarity.
C24_Thm ==
  (fnIn.fn = "apply_diversity" /\ fnIn.called) =>
    LET n == Len(fnIn.sims)
        out == fnOut.results
    IN  /\ Len(out) = n
        /\ \A k \in 1..(n - 1) : out[k].sim >= out[k + 1].sim
        /\ \E f \in RowOrders(n) :
             \A k \in 1..n :
               /\ out[k].id = fnIn.sims[f[k]].id
               /\ out[k].sim = C24_Adjusted(f[k])

\* three entries of one id with limit 1: the third loses twice the penalty
\* and the penalised entries fall behind another id
C24_Wit ==
  /\ fnIn.fn = "apply_diversity"
  /\ fnIn.called
  /\ fnIn.same_celeb_limit = 1
  /\ fnIn.penalty > 0
  /\ \E i \in 1..Len(fnIn.sims) : Earlier(i) = 2
  /\ fnOut.results # fnIn.sims
  /\ \E k \in 1..Len(fnOut.results) :
       fnOut.results[k].sim = 5 - 2 * fnIn.penalty

\* DeepFace.represent found no face: it returned nothing, or raised its
\* 'Face could not be detected' error
NoFaceFound ==
  \/ fnIn.represent.kind = "None"
  \/ fnIn.represent.kind = "results" /\ fnIn.represent.faces = << >>
  \/ /\ fnIn.represent.kind = "ValueError"
     /\ Contains(fnIn.represent.msg, << "Face could not be detected" >>)

\* C25: when the model returns no result for the image, or raises its 'Face
\* could not be detected' error, the caller of DeepFaceEmbedder.extract
\* receives a FaceDetectionError with code NO_FACE_DETECTED.
C25_Claim ==
  (fnIn.fn = "extract" /\ fnIn.called /\ fnIn.deepface /\ NoFaceFound) =>
    /\ fnOut.exc.kind = "typed"
    /\ fnOut.exc.code = "NO_FACE_DETECTED"

\* C26: in stage 4, whenever the catalog is non-empty (and aligned), the
\* candidates handed to the similarity computation after expression
\* filtering are non-empty, and the stage does not fail for want of
\* candidates.
C26_Claim ==
  (/\ fnIn.fn = "stage4"
   /\ fnIn.called
   /\ Len(fnIn.ids) > 0
   /\ Len(fnIn.ids) = Len(fnIn.embeddings)) =>
    /\ Len(fnOut.ids) > 0
    /\ fnOut.exc = NoExc

\* the ids the two rules select, in order
SelectedIds ==
  [i \in 1..Len(fnOut.select_top_k) |-> fnOut.select_top_k[i].celeb_id]

SlicedIds == [i \in 1..Len(fnOut.get_top_k) |-> fnOut.get_top_k[i].id]

\* C27 as stated: for every sorted list, every k and every threshold,
\* select_top_k selects the same ids in the same order as
\* filter_by_threshold(similarities, t)[:k].
C27_Claim ==
  (fnIn.fn = "rules" /\ fnIn.called) => SelectedIds = SlicedIds

\* C27: for every list sorted non-increasing by similarity, every k >= 0 and
\* every threshold t, select_top_k(similarities, k, t) selects the same ids
\* in the same order as filter_by_threshold(similarities, t)[:k].
C27_Thm ==
  (fnIn.fn = "rules" /\ fnIn.called /\ fnIn.k >= 0) =>
    SelectedIds = SlicedIds

\* a list with entries at and below the threshold and more entries above it
\* than k: both rules stop at k, and both keep the entry at the threshold
C27_Wit ==
  /\ fnIn.fn = "rules"
  /\ fnIn.called
  /\ fnIn.k = 2
  /\ Len(fnIn.sims) = 4
  /\ fnIn.sims[2].sim = fnIn.threshold
  /\ fnIn.sims[4].sim < fnIn.threshold
  /\ Len(FilterByThreshold(fnIn.sims, fnIn.threshold)) = 3
  /\ Len(SelectedIds) = 2
  /\ SelectedIds = SlicedIds

\* k = -1: select_top_k selects nothing, the slice drops the last entry only
C27_WitNegative ==
  /\ fnIn.fn = "rules"
  /\ fnIn.called
  /\ fnIn.k = -1
  /\ SelectedIds = << >>
  /\ Len(SlicedIds) = 2

IsTerminal(m) == m.type \in { "analyze_result", "error" }

IsProgress(m) == m.type = "analyze_progress"

\* the terminal messages written to the session's socket
Terminal(c) == SelectSeq(wire[c], IsTerminal)

\* C29: for an analyze_request handled on a connected session exactly one
\* terminal message is written, never an analyze_result and an error: the
\* analyze_result when the pipeline returned a result, the error with the
\* typed error's code when it raised a typed error, INTERNAL_ERROR for an
\* untyped failure, and WS_MESSAGE_INVALID, the pipeline not having run,
\* when image_data is missing; none is written before the request is handled.
C29_Thm ==
  \A c \in WsConns :
    /\ pc[c] # "handled" => Terminal(c) = << >>
    /\ pc[c] = "handled" =>
         /\ Len(Terminal(c)) = 1
         /\ outcome[c].status = "result"
              => Terminal(c)[1] = Msg("analyze_result", "")
         /\ (outcome[c].status = "error" /\ outcome[c].err.kind = "typed")
              => Terminal(c)[1] = Msg("error", outcome[c].err.code)
         /\ (outcome[c].status = "error" /\ outcome[c].err.kind = "untyped")
              => Terminal(c)[1] = Msg("error", "INTERNAL_ERROR")
         /\ outcome[c].status = "none"
              => /\ Terminal(c)[1] = Msg("error", "WS_MESSAGE_INVALID")
                 /\ stageLog[c] = << >>
                 /\ notified[c] = << >>

\* the catalog load raised an untyped exception, which left analyze as it
\* was: the client receives one error, INTERNAL_ERROR
C29_Wit ==
  \E c \in WsConns :
    /\ pc[c] = "handled"
    /\ outcome[c].status = "error"
    /\ outcome[c].err.kind = "untyped"
    /\ Terminal(c) = << Msg("error", "INTERNAL_ERROR") >>

\* the pipeline returned a result and the analyze_result was written
C29_WitResult ==
  \E c \in WsConns :
    /\ pc[c] = "handled"
    /\ outcome[c].status = "result"
    /\ Terminal(c) = << Msg("analyze_result", "") >>

\* the position of a step in the order of the steps
StepPos(step) == CHOOSE i \in 1..Len(AnalyzeStep) : AnalyzeStep[i] = step

\* C30: every analyze_progress message of a request is written to the
\* socket before the request's analyze_result or error message, and the
\* progress messages are written in step order.
C30_Claim ==
  \A c \in WsConns :
    \A i, j \in 1..Len(wire[c]) :
      /\ (IsProgress(wire[c][i]) /\ IsTerminal(wire[c][j])) => i < j
      /\ (IsProgress(wire[c][i]) /\ IsProgress(wire[c][j]) /\ i < j)
           => StepPos(wire[c][i].code) < StepPos(wire[c][j].code)

====
